---- MODULE Spec2Model ----
(***************************************************************************)
(* A model of the ASMF memory engine of src/backend/ai-core/training.js:   *)
(* the Context layer (ContextLayer), the concept graph (SemanticLayer),    *)
(* the temporal index (TemporalLayer) and the engine that fans an          *)
(* observation out to them (ASMFEngine).                                    *)
(*                                                                         *)
(* Time.  Date.now() is the variable now.  The clock is modelled at a      *)
(* resolution of one minute: every duration of the source is a whole       *)
(* number of minutes (60000 ms), and is written here in minutes, so that   *)
(* the 30-day windows stay inside TLC's 32-bit integers.                   *)
(*                                                                         *)
(* Identifiers.  crypto.randomBytes(..) identifiers are modelled as fresh  *)
(* numbers drawn from counters: all the code relies on is that they are    *)
(* distinct.                                                               *)
(*                                                                         *)
(* Numbers.  The source computes in floating point.  Every comparison of   *)
(* the model is the same comparison cleared of its denominators, on        *)
(* integers.                                                               *)
(***************************************************************************)
EXTENDS Integers, Sequences, FiniteSets, TLC

(***************************************************************************)
(* Durations of the source, in minutes.                                    *)
(***************************************************************************)
MINUTE == 1
FIVE_MINUTES == 5
HOUR == 60
DAY == 1440
WEEK == 10080
MONTH == 43200

\* Date.now() when the engine is constructed
Epoch == 365 * DAY

(***************************************************************************)
(* Configuration (ASMFEngine's constructor).  The capacities are chosen    *)
(* small so that eviction happens within the bounds of the model.          *)
(***************************************************************************)
ContextMaxSize == 3
ContextRetentionTime == 60
SemanticMaxConcepts == 9
SemanticClusterSize == 3
TemporalMaxEvents == 3
TemporalTimeWindow == 43200
\* Math.ceil(1 / compressionRatio), for temporalCompressionRatio = 0.5
BatchSize == 2
CacheSize == 2

(***************************************************************************)
(* Numbers the source fixes.                                               *)
(***************************************************************************)
RecentWindow == 20
PatternCap == 1000
ContextCap == 10
ClusterCap == 100
FrequencyThreshold == 2
KeywordCap == 10
CompressFrequency == 5
CompressKeep == 3
\* cleanupInactiveConversations: 30 minutes
InactiveThreshold == 30

(***************************************************************************)
(* Bounds of the model.                                                    *)
(***************************************************************************)
MaxAdds == 4
MaxHours == 3
MaxRecords == 5
MaxPatternHours == 5
MaxTemporalRecords == 4
MaxMonths == 1
MaxConcRecords == 4
MaxPasses == 2
MaxProcessed == 3
MaxWeeks == 2
MaxConsolidateAdds == 2
MaxConsolidateProcessed == 3
MaxConsolidateWeeks == 2
MaxConcProcessed == 3
MaxRoundTripCalls == 3
MaxRoundTripHours == 1
MaxRoundTripObjects == 6
MaxStartCalls == 4
MaxFaultCalls == 4
MaxBackupCalls == 3
MaxSearchAdds == 2
MaxSearchHours == 1
MaxStepCalls == 3
MaxCacheCalls == 4
MaxCacheTicks == 2
MaxCheckCapacity == 5
MaxPassCalls == 3
MaxPassMonths == 1
MaxCalls == 4
MaxEngineHours == 1
MaxCapRecords == 3
MaxCapHours == 2
MaxCapExcess == 1
MaxConversations == 3
MaxManagerTicks == 1
MaxFiles == 3
MaxBatchSize == 2

(***************************************************************************)
(* The inputs.  A SemanticFeatures value is a record of the keywords (the  *)
(* set of their words) and the concepts (a list without repetition, as     *)
(* identifyConcepts returns it).  A concept name is a string, modelled as  *)
(* the sequence of its characters, so that String.includes can be          *)
(* computed.                                                               *)
(***************************************************************************)
NameA == <<"a">>
NameB == <<"b">>
NameAB == <<"a", "b">>
Names == {NameA, NameB, NameAB}

Words == {"w1", "w2"}

Metas == {"none", "s1"}

ConceptLists ==
  {<<>>} \cup {<<x>> : x \in Names}
         \cup {p \in Names \X Names : p[1] # p[2]}

\* The observations of the pattern scenarios: two that are similar to each
\* other (overlap 1/2) and one that is similar to neither.
PatternInfos ==
  { [keywords |-> {"w1"}, concepts |-> <<NameA, NameB>>],
    [keywords |-> {"w1"}, concepts |-> <<NameA>>],
    [keywords |-> {"w2"}, concepts |-> <<NameAB>>] }

TmpInfos ==
  { [keywords |-> {"w1"}, concepts |-> <<NameA, NameB>>],
    [keywords |-> {"w2"}, concepts |-> <<NameB>>] }

ConcInfos == { [keywords |-> {"w1"}, concepts |-> <<NameA>>] }

\* inputs of the SemanticLayer: a text, and the concepts found in it
NameOf(ch) == <<ch>>

SemInfos ==
  { [text |-> "t1", concepts |-> <<NameA, NameB>>],
    [text |-> "t2", concepts |-> <<NameB, NameA>>],
    [text |-> "t3", concepts |-> <<NameAB, NameOf("c"), NameOf("d"), NameOf("e")>>],
    [text |-> "t4", concepts |-> <<NameOf("f"), NameOf("g"), NameOf("h"), NameOf("i"),
                                   NameOf("j"), NameOf("k")>>] }

ConsolidateSemInfos ==
  { [text |-> "t1", concepts |-> <<NameA, NameB>>],
    [text |-> "t3", concepts |-> <<NameAB, NameOf("c")>>] }

SemConcInfos ==
  { [text |-> "t1", concepts |-> <<NameA, NameB>>],
    [text |-> "t3", concepts |-> <<NameAB, NameOf("c"), NameOf("d")>>] }

ConsolidateCtxInfos == { [keywords |-> {"w1"}, concepts |-> <<NameA>>] }

CtxInfos ==
  { [keywords |-> {"w1"}, concepts |-> <<NameA, NameB>>],
    [keywords |-> {"w1", "w2"}, concepts |-> <<NameB>>],
    [keywords |-> {}, concepts |-> <<>>] }

(***************************************************************************)
(* Helpers.                                                                *)
(***************************************************************************)
SeqToSet(s) == {s[i] : i \in DOMAIN s}

Max(a, b) == IF a >= b THEN a ELSE b

Min(a, b) == IF a <= b THEN a ELSE b

VARIABLES
  now,        \* Date.now(), in minutes
  lastOp,     \* the call that returned last, and whether it repeats the one before
  memories,   \* ContextLayer.memories
  memCount,   \* the number of memory ids drawn so far
  events,     \* TemporalLayer.events: the ids of the event objects, in order
  eventObjs,  \* the event objects ever created; the id of an object is its index
  timelines,  \* TemporalLayer.timelines, a Map in insertion order
  patterns,   \* TemporalLayer.patterns
  concepts,   \* SemanticLayer.concepts, a Map in insertion order
  relationships, \* SemanticLayer.relationships
  clusters,   \* SemanticLayer.clusters
  semHistory, \* what the layers were asked so far (read by properties and bounds only)
  cache,      \* ASMFEngine.cache, a Map in insertion order
  metrics,    \* ASMFEngine.performanceMetrics
  storage,    \* the file of the MemoryStorage: <<>>, or the one state saved in it
  initialized, \* ASMFEngine.initialized
  reply,      \* what the last call of the engine returned
  pc,         \* for each caller, where its call in progress stands ("idle": none)
  frame,      \* for each caller, the local variables of its call in progress
  activeConversations, \* ConversationManager.activeConversations
  conversationHistory, \* ConversationManager.conversationHistory
  managerMetrics,      \* ConversationManager.metrics
  managerPc,  \* initializeSystem and each caller of the ConversationManager:
              \* where the call in progress stands, and its conversation
  batchCall   \* TrainingProcessor.processBatch: the call in progress or returned

ctxVars == <<memories, memCount>>
tmpVars == <<events, eventObjs, timelines, patterns>>
semVars == <<concepts, relationships, clusters, semHistory>>
engVars == <<cache, metrics, storage, reply, initialized>>
callVars == <<pc, frame>>
convVars == <<activeConversations, conversationHistory, managerMetrics, managerPc>>
appVars == <<convVars, batchCall>>
vars == <<now, lastOp, memories, memCount, events, eventObjs, timelines, patterns,
          concepts, relationships, clusters, semHistory, cache, metrics, storage,
          initialized, reply, pc, frame, activeConversations, conversationHistory,
          managerMetrics, managerPc, batchCall>>

(***************************************************************************)
(* ContextLayer.                                                           *)
(***************************************************************************)
NewMemory(id, info, metadata, t) ==
  [ id |-> id,
    keywords |-> info.keywords,
    concepts |-> info.concepts,
    metadata |-> metadata,
    createdAt |-> t,
    accessCount |-> 0,
    lastAccessed |-> t ]

\* The mutant of Ctx_addMemory that drops the entry just added.
Ctx_addMemory_dropNewest(mems, info, metadata, id, t) ==
  LET pushed == Append(mems, NewMemory(id, info, metadata, t))
  IN  IF Len(pushed) > ContextMaxSize
        THEN SubSeq(pushed, 1, Len(pushed) - 1)
        ELSE pushed

\* addMemory: push, then shift once when the list is over maxSize.
\* (handleMemoryRemoval deletes a key of the connections map, which nothing
\* ever sets: the map is always empty and is left out.)
Ctx_addMemory(mems, info, metadata, id, t) ==
  LET pushed == Append(mems, NewMemory(id, info, metadata, t))
  IN  IF Len(pushed) > ContextMaxSize THEN Tail(pushed) ELSE pushed

\* The mutant of Ctx_consolidate that also drops the oldest memory it keeps.
Ctx_consolidate_dropOldest(mems, t) ==
  LET kept == SelectSeq(mems, LAMBDA m : m.accessCount > 0 \/ m.createdAt > t - ContextRetentionTime)
  IN  IF kept = <<>> THEN kept ELSE Tail(kept)

Ctx_consolidate(mems, t) ==
  SelectSeq(mems, LAMBDA m : m.accessCount > 0 \/ m.createdAt > t - ContextRetentionTime)

(***************************************************************************)
(* TemporalLayer.  The layer's state is handled as one record              *)
(* T = [events, objs, timelines, patterns].  An event object is created    *)
(* once and referred to from the event list, the timelines and the         *)
(* patterns: objs is the store of the objects and the others hold ids.     *)
(***************************************************************************)
Abs(x) == IF x < 0 THEN -x ELSE x

RECURSIVE SumSeq(_)
SumSeq(s) == IF s = <<>> THEN 0 ELSE Head(s) + SumSeq(Tail(s))

RECURSIVE GCD(_, _)
GCD(a, b) == IF b = 0 THEN a ELSE GCD(b, a % b)

RECURSIVE GCDSeq(_)
GCDSeq(s) == IF s = <<>> THEN 0 ELSE GCD(Abs(Head(s)), GCDSeq(Tail(s)))

\* metadata "none" is the object {}, metadata m is the object {timeline: m}.
MetadataKeys(metadata) == IF metadata = "none" THEN {} ELSE {"timeline"}

\* calculateContentSimilarity, as the fraction num/den.
ContentSimilarity(concepts1, concepts2) ==
  LET s1 == SeqToSet(concepts1)
      s2 == SeqToSet(concepts2)
  IN  IF s1 = {} \/ s2 = {}
        THEN [num |-> 0, den |-> 1]
        ELSE [num |-> Cardinality(s1 \cap s2), den |-> Cardinality(s1 \cup s2)]

\* calculateMetadataSimilarity, as the fraction num/den.
MetadataSimilarity(metadata1, metadata2) ==
  LET k1 == MetadataKeys(metadata1)
      k2 == MetadataKeys(metadata2)
  IN  IF k1 = {} \/ k2 = {}
        THEN [num |-> 0, den |-> 1]
        ELSE [num |-> Cardinality(k1 \cap k2), den |-> Cardinality(k1 \cup k2)]

\* the fraction f is greater than n/d
Exceeds(f, n, d) == f.num * d > n * f.den

NewEvent(id, info, metadata, t, sequence) ==
  [ id |-> id,
    keywords |-> info.keywords,
    concepts |-> info.concepts,
    metadata |-> metadata,
    timestamp |-> t,
    sequence |-> sequence,
    temporalRelationships |-> <<>>,
    compressed |-> FALSE,
    originalCount |-> 0,
    originalIds |-> <<>>,
    timeRange |-> [start |-> 0, end |-> 0],
    lastAccessed |-> 0 ]

\* extractTimelineKey: metadata.timeline, else the day of the timestamp.
TimelineKey(event) ==
  IF event.metadata # "none"
    THEN [kind |-> "named", name |-> event.metadata, day |-> 0]
    ELSE [kind |-> "daily", name |-> "", day |-> event.timestamp \div DAY]

determineRelationshipType(event1, event2) ==
  LET timeDiff == Abs(event1.timestamp - event2.timestamp)
  IN  IF timeDiff < MINUTE THEN "concurrent"
      ELSE IF timeDiff < FIVE_MINUTES THEN "sequential"
      ELSE IF timeDiff < HOUR THEN "related"
      ELSE "distant"

\* calculateRelationshipStrength, as a fraction: the sum
\* max(0, 1 - timeDiff/HOUR) + 0.5 * content + 0.3 * metadata over the
\* common denominator 10 * HOUR * content.den * metadata.den, at most 1.
calculateRelationshipStrength(event1, event2) ==
  LET timeDiff == Abs(event1.timestamp - event2.timestamp)
      c == ContentSimilarity(event1.concepts, event2.concepts)
      m == MetadataSimilarity(event1.metadata, event2.metadata)
      den == 10 * HOUR * c.den * m.den
      num == 10 * Max(0, HOUR - timeDiff) * c.den * m.den
               + 5 * HOUR * c.num * m.den
               + 3 * HOUR * c.den * m.num
  IN  [num |-> Min(num, den), den |-> den]

TimelineIndex(tls, key) ==
  IF \E i \in DOMAIN tls : tls[i].key = key
    THEN CHOOSE i \in DOMAIN tls : tls[i].key = key
    ELSE 0

\* updateTimelines and updateTemporalRelationships for the event object id.
TL_updateTimelines(T, id, t) ==
  LET event == T.objs[id]
      key == TimelineKey(event)
      idx == TimelineIndex(T.timelines, key)
      tls == IF idx = 0
               THEN Append(T.timelines,
                           [key |-> key, events |-> <<>>,
                            startTime |-> event.timestamp,
                            endTime |-> event.timestamp])
               ELSE T.timelines
      k == IF idx = 0 THEN Len(tls) ELSE idx
      timeline == [tls[k] EXCEPT !.events = Append(@, id),
                                 !.startTime = Min(@, event.timestamp),
                                 !.endTime = Max(@, event.timestamp)]
      nearbyEvents ==
        SelectSeq(timeline.events,
                  LAMBDA e : T.objs[e].id # event.id
                             /\ Abs(T.objs[e].timestamp - event.timestamp) < HOUR)
      related ==
        [i \in 1..Len(nearbyEvents) |->
           [event1 |-> id,
            event2 |-> nearbyEvents[i],
            type |-> determineRelationshipType(event, T.objs[nearbyEvents[i]]),
            strength |-> calculateRelationshipStrength(event, T.objs[nearbyEvents[i]]),
            timestamp |-> t]]
  IN  [T EXCEPT !.timelines = [tls EXCEPT ![k] = timeline],
                !.objs[id].temporalRelationships = @ \o related]

\* The mutant of archiveOldEvent that leaves the timelines alone.
TL_archiveOldEvent_keepsTimelines(T) == [T EXCEPT !.events = Tail(@)]

\* archiveOldEvent: shift the event list and take the event out of the
\* timelines (an emptied timeline stays).
TL_archiveOldEvent(T) ==
  LET removed == Head(T.events)
  IN  [T EXCEPT !.events = Tail(@),
                !.timelines =
                  [i \in DOMAIN T.timelines |->
                     [T.timelines[i] EXCEPT
                        !.events = SelectSeq(@, LAMBDA e : T.objs[e].id # T.objs[removed].id)]]]

NoPattern ==
  [ type |-> "none",
    createdAt |-> 0,
    baseEvent |-> 0,
    similarEvents |-> <<>>,
    averageInterval |-> [num |-> 0, den |-> 1],
    variationSquared |-> [num |-> 0, den |-> 1],
    sequences |-> <<>>,
    currentRate |-> 0,
    historicalCount |-> 0,
    historicalSpan |-> 0 ]

LastN(s, n) == IF Len(s) <= n THEN s ELSE SubSeq(s, Len(s) - n + 1, Len(s))

Intervals(ts) == [i \in 1..(Len(ts) - 1) |-> ts[i + 1] - ts[i]]

\* The intervals divided by their greatest common divisor: the coefficient
\* of variation does not change, and the squares stay small.
Reduced(intervals) ==
  LET g == GCDSeq(intervals)
  IN  IF g = 0 THEN intervals ELSE [i \in DOMAIN intervals |-> intervals[i] \div g]

\* n^2 times the variance of xs: n * sum(x^2) - sum(x)^2.
ScaledVariance(xs) ==
  Len(xs) * SumSeq([i \in DOMAIN xs |-> xs[i] * xs[i]]) - SumSeq(xs) * SumSeq(xs)

\* The mutant of IsRegular with the comparison turned round.
IsRegular_inverted(intervals) ==
  LET xs == Reduced(intervals)
      S == SumSeq(xs)
  IN  IF S > 0 THEN 25 * ScaledVariance(xs) > S * S ELSE S < 0

\* coefficientOfVariation < 0.2, where coefficientOfVariation is
\* Math.sqrt(variance) / avgInterval.  For a positive average this is
\* 25 * variance < avg^2.  A zero average gives NaN or Infinity (false), a
\* negative one a quotient that is not positive (true).
IsRegular(intervals) ==
  LET xs == Reduced(intervals)
      S == SumSeq(xs)
  IN  IF S > 0 THEN 25 * ScaledVariance(xs) < S * S ELSE S < 0

\* detectRecurringPattern: the list of the pattern found, or the empty list.
\* confidence is 1 - coefficientOfVariation, kept as the square of the
\* coefficient of variation (variationSquared).
detectRecurringPattern(T, id, recentEvents, t) ==
  LET newEvent == T.objs[id]
      similarEvents ==
        SelectSeq(recentEvents,
                  LAMBDA e : e # id
                             /\ Exceeds(ContentSimilarity(newEvent.concepts,
                                                          T.objs[e].concepts), 3, 10))
      intervals == Intervals([i \in DOMAIN similarEvents |->
                                T.objs[similarEvents[i]].timestamp])
  IN  IF Len(similarEvents) < 2 \/ ~IsRegular(intervals)
        THEN <<>>
        ELSE << [NoPattern EXCEPT
                   !.type = "recurring",
                   !.createdAt = t,
                   !.baseEvent = id,
                   !.similarEvents = similarEvents,
                   !.averageInterval = [num |-> SumSeq(intervals), den |-> Len(intervals)],
                   !.variationSquared =
                     [num |-> ScaledVariance(Reduced(intervals)),
                      den |-> SumSeq(Reduced(intervals)) * SumSeq(Reduced(intervals))]] >>

\* compareSequences of two lists of three concept lists, as a fraction: the
\* mean of the three overlaps (an empty concept list contributes 0).
compareSequences(seq1, seq2) ==
  LET f == [i \in 1..3 |-> ContentSimilarity(seq1[i], seq2[i])]
  IN  [num |-> f[1].num * f[2].den * f[3].den
                 + f[2].num * f[1].den * f[3].den
                 + f[3].num * f[1].den * f[2].den,
       den |-> 3 * f[1].den * f[2].den * f[3].den]

\* The index pairs (i, j) of detectSequentialPattern's two loops, in the
\* order the loops visit them (0-based, n events).
RECURSIVE SequencePairs(_, _, _)
SequencePairs(i, j, n) ==
  IF i > n - 4 THEN <<>>
  ELSE IF j > n - 3 THEN SequencePairs(i + 1, i + 4, n)
  ELSE <<[firstOccurrence |-> i, secondOccurrence |-> j]>> \o SequencePairs(i, j + 1, n)

detectSequentialPattern(T, recentEvents, t) ==
  LET n == Len(recentEvents)
      window(i) == [k \in 1..3 |-> T.objs[recentEvents[i + k]].concepts]
      similarity(p) == compareSequences(window(p.firstOccurrence),
                                        window(p.secondOccurrence))
      found == SelectSeq(SequencePairs(0, 3, n),
                         LAMBDA p : Exceeds(similarity(p), 7, 10))
      sequences ==
        [k \in DOMAIN found |->
           [firstOccurrence |-> found[k].firstOccurrence,
            secondOccurrence |-> found[k].secondOccurrence,
            similarity |-> similarity(found[k])]]
  IN  IF n < 4 \/ sequences = <<>>
        THEN <<>>
        ELSE << [NoPattern EXCEPT !.type = "sequential",
                                  !.createdAt = t,
                                  !.sequences = sequences] >>

\* detectFrequencyPattern.  frequencyRatio is
\* recentRate / (historicalCount / (span / DAY)); it is compared with 2 and
\* with 0.5 cleared of the denominators.
detectFrequencyPattern(T, id, t) ==
  LET newEvent == T.objs[id]
      similarEvents ==
        SelectSeq(T.events,
                  LAMBDA e : e # id
                             /\ Exceeds(ContentSimilarity(newEvent.concepts,
                                                          T.objs[e].concepts), 4, 10))
      recentSimilar ==
        SelectSeq(similarEvents,
                  LAMBDA e : newEvent.timestamp - T.objs[e].timestamp < DAY)
      historicalSimilar ==
        SelectSeq(similarEvents,
                  LAMBDA e : newEvent.timestamp - T.objs[e].timestamp >= DAY)
      span == newEvent.timestamp - T.objs[historicalSimilar[1]].timestamp
      recentRate == Len(recentSimilar)
      increase == recentRate * span > 2 * Len(historicalSimilar) * DAY
      decrease == 2 * recentRate * span < Len(historicalSimilar) * DAY
  IN  IF Len(similarEvents) < 3 \/ historicalSimilar = <<>> THEN <<>>
      ELSE IF increase \/ decrease
        THEN << [NoPattern EXCEPT !.type = "frequency",
                                  !.createdAt = t,
                                  !.currentRate = recentRate,
                                  !.historicalCount = Len(historicalSimilar),
                                  !.historicalSpan = span] >>
        ELSE <<>>

\* The mutant of cleanupPatterns that keeps the first 1000.
cleanupPatterns_dropNewest(ps, t) ==
  LET fresh == SelectSeq(ps, LAMBDA p : p.createdAt > t - MONTH)
  IN  SubSeq(fresh, 1, Min(Len(fresh), PatternCap))

\* cleanupPatterns: drop the patterns older than 30 days, keep the last 1000.
cleanupPatterns(ps, t) ==
  LastN(SelectSeq(ps, LAMBDA p : p.createdAt > t - MONTH), PatternCap)

\* detectPatterns for the event object id.
TL_detectPatterns(T, id, t) ==
  LET recentEvents == LastN(T.events, RecentWindow)
  IN  [T EXCEPT !.patterns =
         cleanupPatterns(@ \o detectRecurringPattern(T, id, recentEvents, t)
                           \o detectSequentialPattern(T, recentEvents, t)
                           \o detectFrequencyPattern(T, id, t), t)]

\* recordEvent up to its first await: the event object is created and
\* pushed, and the oldest event is archived when the list is over maxEvents.
TL_pushEvent(T, info, metadata, t) ==
  LET id == Len(T.objs) + 1
      pushed == [T EXCEPT !.objs = Append(@, NewEvent(id, info, metadata, t, Len(T.events))),
                          !.events = Append(@, id)]
  IN  IF Len(pushed.events) > TemporalMaxEvents THEN TL_archiveOldEvent(pushed) ELSE pushed

\* recordEvent, run without interruption.
TL_recordEvent(T, info, metadata, t) ==
  LET id == Len(T.objs) + 1
  IN  TL_detectPatterns(TL_updateTimelines(TL_pushEvent(T, info, metadata, t), id, t), id, t)

RECURSIVE Flatten(_)
Flatten(ss) == IF ss = <<>> THEN <<>> ELSE Head(ss) \o Flatten(Tail(ss))

\* the elements of s in the order of their first occurrence
RECURSIVE Distinct(_)
Distinct(s) ==
  IF s = <<>> THEN <<>>
  ELSE LET front == Distinct(SubSeq(s, 1, Len(s) - 1))
       IN  IF s[Len(s)] \in SeqToSet(front) THEN front ELSE Append(front, s[Len(s)])

Count(s, x) == Cardinality({i \in DOMAIN s : s[i] = x})

MinOf(S) == CHOOSE x \in S : \A y \in S : x <= y

MaxOf(S) == CHOOSE x \in S : \A y \in S : x >= y

\* extractCommonConcepts: the concepts that at least half of the events of
\* the group have, in the order conceptCounts first met them.
extractCommonConcepts(group) ==
  LET all == Flatten([i \in DOMAIN group |-> group[i].concepts])
  IN  SelectSeq(Distinct(all), LAMBDA c : Count(all, c) >= (Len(group) + 1) \div 2)

CompressedEvent_countOne(id, group, t) ==
  [ id |-> id,
    keywords |-> {},
    concepts |-> <<>>,
    metadata |-> "none",
    timestamp |-> group[1].timestamp,
    sequence |-> -1,
    temporalRelationships |-> <<>>,
    compressed |-> TRUE,
    originalCount |-> 1,
    originalIds |-> <<>>,
    timeRange |-> [start |-> group[1].timestamp, end |-> group[1].timestamp],
    lastAccessed |-> t ]

\* The object compressArchivalEvents builds for a group of two or more
\* events.  It has no keywords, no sequence and no metadata.timeline.
CompressedEvent(id, group, t) ==
  [ id |-> id,
    keywords |-> {},
    concepts |-> extractCommonConcepts(group),
    metadata |-> "none",
    timestamp |-> group[(Len(group) \div 2) + 1].timestamp,
    sequence |-> -1,
    temporalRelationships |-> <<>>,
    compressed |-> TRUE,
    originalCount |-> Len(group),
    originalIds |-> [i \in DOMAIN group |-> group[i].id],
    timeRange |-> [start |-> MinOf({group[i].timestamp : i \in DOMAIN group}),
                   end |-> MaxOf({group[i].timestamp : i \in DOMAIN group})],
    lastAccessed |-> t ]

\* compressArchivalEvents from the 1-based position i on: the objects store
\* with the compressed events added to it, and the resulting list.
RECURSIVE compressArchivalEvents(_, _, _, _, _)
compressArchivalEvents(objs, archivalEvents, i, compressed, t) ==
  IF i > Len(archivalEvents)
    THEN [objs |-> objs, compressed |-> compressed]
    ELSE LET group == SubSeq(archivalEvents, i, Min(i + BatchSize - 1, Len(archivalEvents)))
             id == Len(objs) + 1
         IN  IF Len(group) > 1
               THEN compressArchivalEvents(
                      Append(objs, CompressedEvent(id, [k \in DOMAIN group |-> objs[group[k]]], t)),
                      archivalEvents, i + BatchSize, Append(compressed, id), t)
               ELSE compressArchivalEvents(
                      objs, archivalEvents, i + BatchSize, Append(compressed, group[1]), t)

\* consolidate up to its await: the event list is split at the cutoff and
\* the archival part is compressed.  The result is the store with the new
\* objects, and the two lists that the assignment after the await joins.
TL_consolidateBegin(T, t) ==
  LET cutoffTime == t - TemporalTimeWindow
      recentEvents == SelectSeq(T.events, LAMBDA e : T.objs[e].timestamp > cutoffTime)
      archivalEvents == SelectSeq(T.events, LAMBDA e : T.objs[e].timestamp <= cutoffTime)
      c == compressArchivalEvents(T.objs, archivalEvents, 1, <<>>, t)
  IN  [objs |-> c.objs, recentEvents |-> recentEvents, compressedEvents |-> c.compressed]

\* consolidate after its await: this.events is assigned and the timelines
\* are cleaned of the events no longer in it, the emptied ones deleted.
TL_consolidateEnd(T, recentEvents, compressedEvents) ==
  LET evs == recentEvents \o compressedEvents
      cleaned == [i \in DOMAIN T.timelines |->
                    [T.timelines[i] EXCEPT
                       !.events = SelectSeq(@, LAMBDA e : e \in SeqToSet(evs))]]
  IN  [T EXCEPT !.events = evs,
                !.timelines = SelectSeq(cleaned, LAMBDA tl : tl.events # <<>>)]

\* consolidate, run without interruption.
TL_consolidate(T, t) ==
  LET b == TL_consolidateBegin(T, t)
  IN  TL_consolidateEnd([T EXCEPT !.objs = b.objs], b.recentEvents, b.compressedEvents)

(***************************************************************************)
(* SemanticLayer.  The layer's state is handled as one record              *)
(* S = [concepts, relationships, clusters].  concepts is the Map of the    *)
(* concept objects in insertion order (the random id of a concept is never *)
(* read and is left out).  relationships is the Map from a key             *)
(* `${concept1}::${concept2}` to a weight; the key is kept as the pair     *)
(* <<concept1, concept2>>, and KeyString gives the string.                 *)
(***************************************************************************)
KeyString(key) == key[1] \o <<":", ":">> \o key[2]

\* String.prototype.includes: x occurs in y
Includes(y, x) == \E i \in 0..(Len(y) - Len(x)) : SubSeq(y, i + 1, i + Len(x)) = x

ConceptIndex(cs, name) ==
  IF \E i \in DOMAIN cs : cs[i].name = name
    THEN CHOOSE i \in DOMAIN cs : cs[i].name = name
    ELSE 0

HasConcept(cs, name) == ConceptIndex(cs, name) # 0

Weight(rels, key) == IF key \in DOMAIN rels THEN rels[key] ELSE 0

\* Map.set
SetWeight(rels, key, w) ==
  [k \in DOMAIN rels \cup {key} |-> IF k = key THEN w ELSE rels[k]]

\* Map.delete of every key whose string includes the name
DropKeysIncluding(rels, name) ==
  [k \in {k \in DOMAIN rels : ~Includes(KeyString(k), name)} |-> rels[k]]

\* The mutant of TouchConcept that counts a new concept only.
TouchConcept_newOnly(cs, name, text, t) ==
  IF HasConcept(cs, name)
    THEN cs
    ELSE Append(cs, [name |-> name, frequency |-> 1, lastSeen |-> t,
                     connections |-> {}, context |-> <<text>>])

\* One turn of extractConcepts's loop: the concept is created when the Map
\* has not got it, then counted, dated, and given the text (the last
\* ContextCap texts are kept).
TouchConcept(cs, name, text, t) ==
  LET created == IF HasConcept(cs, name)
                   THEN cs
                   ELSE Append(cs, [name |-> name, frequency |-> 0, lastSeen |-> t,
                                    connections |-> {}, context |-> <<>>])
      i == ConceptIndex(created, name)
  IN  [created EXCEPT ![i].frequency = @ + 1,
                      ![i].lastSeen = t,
                      ![i].context = LastN(Append(@, text), ContextCap)]

RECURSIVE TouchConcepts(_, _, _, _)
TouchConcepts(cs, names, text, t) ==
  IF names = <<>> THEN cs
  ELSE TouchConcepts(TouchConcept(cs, Head(names), text, t), Tail(names), text, t)

\* Array.prototype.sort (stable) of a list, ascending in the integer keys
\* given beside it (keys[i] is the key of s[i])
Rank(keys, i) ==
  Cardinality({j \in DOMAIN keys : keys[j] < keys[i] \/ (keys[j] = keys[i] /\ j < i)}) + 1

SortByKey(s, keys) ==
  [r \in DOMAIN s |-> s[CHOOSE i \in DOMAIN s : Rank(keys, i) = r]]

\* delete the concepts named, one after the other, each with the
\* relationships whose key includes its name
RECURSIVE RemoveConcepts(_, _)
RemoveConcepts(S, names) ==
  IF names = <<>> THEN S
  ELSE RemoveConcepts(
         [S EXCEPT !.concepts = SelectSeq(@, LAMBDA c : c.name # Head(names)),
                   !.relationships = DropKeysIncluding(@, Head(names))],
         Tail(names))

\* cleanupOldConcepts: the Math.floor(size * 0.1) least frequent concepts go.
SL_cleanupOldConcepts(S) ==
  LET conceptsArray == SortByKey(S.concepts, [i \in DOMAIN S.concepts |-> S.concepts[i].frequency])
      toRemove == SubSeq(conceptsArray, 1, Len(S.concepts) \div 10)
  IN  RemoveConcepts(S, [i \in DOMAIN toRemove |-> toRemove[i].name])

\* extractConcepts
SL_extractConcepts(S, info, t) ==
  LET touched == [S EXCEPT !.concepts = TouchConcepts(@, info.concepts, info.text, t)]
  IN  IF Len(touched.concepts) > SemanticMaxConcepts
        THEN SL_cleanupOldConcepts(touched)
        ELSE touched

\* The pairs (i, j), i < j, of updateRelationships's loops, in their order.
RECURSIVE IndexPairs(_, _, _)
IndexPairs(i, j, n) ==
  IF i > n THEN <<>>
  ELSE IF j > n THEN IndexPairs(i + 1, i + 2, n)
  ELSE <<<<i, j>>>> \o IndexPairs(i, j + 1, n)

\* One turn of updateRelationships's inner loop, on [S, threw].  The weight
\* is set first; concept1Obj.connections throws a TypeError when the Map has
\* no concept1, and so does concept2Obj.connections, after concept1Obj's set
\* was added to.
RelatePair(R, concept1, concept2) ==
  LET S == R.S
      weighted == [S EXCEPT !.relationships =
                     SetWeight(@, <<concept1, concept2>>,
                               Weight(@, <<concept1, concept2>>) + 1)]
      i1 == ConceptIndex(S.concepts, concept1)
      i2 == ConceptIndex(S.concepts, concept2)
  IN  IF R.threw THEN R
      ELSE IF i1 = 0 THEN [S |-> weighted, threw |-> TRUE]
      ELSE IF i2 = 0
        THEN [S |-> [weighted EXCEPT !.concepts[i1].connections = @ \cup {concept2}],
              threw |-> TRUE]
      ELSE [S |-> [weighted EXCEPT !.concepts[i1].connections = @ \cup {concept2},
                                   !.concepts[i2].connections = @ \cup {concept1}],
            threw |-> FALSE]

RECURSIVE RelatePairs(_, _, _)
RelatePairs(R, list, pairs) ==
  IF pairs = <<>> THEN R
  ELSE RelatePairs(RelatePair(R, list[Head(pairs)[1]], list[Head(pairs)[2]]),
                   list, Tail(pairs))

\* updateRelationships: the state it leaves, and whether it threw.
SL_updateRelationships(S, list) ==
  RelatePairs([S |-> S, threw |-> FALSE], list, IndexPairs(1, 2, Len(list)))

\* calculateClusterStrength, as a fraction: the mean, over the pairs i < j,
\* of the weight under the key `${list[i]}::${list[j]}`.
calculateClusterStrength(S, list) ==
  LET pairs == IndexPairs(1, 2, Len(list))
      totalWeight == SumSeq([k \in DOMAIN pairs |->
                               Weight(S.relationships,
                                      <<list[pairs[k][1]], list[pairs[k][2]]>>)])
  IN  IF pairs = <<>> THEN [num |-> 0, den |-> 1]
      ELSE [num |-> totalWeight, den |-> Len(pairs)]

\* checkClustering and performClustering
SL_checkClustering(S, t) ==
  LET sorted == SortByKey(S.concepts, [i \in DOMAIN S.concepts |->
                                       0 - Cardinality(S.concepts[i].connections)])
      top == SubSeq(sorted, 1, Min(SemanticClusterSize, Len(sorted)))
      names == [i \in DOMAIN top |-> top[i].name]
      cluster == [concepts |-> names, createdAt |-> t,
                  strength |-> calculateClusterStrength(S, names)]
  IN  IF Len(S.concepts) > SemanticClusterSize
        THEN [S EXCEPT !.clusters = LastN(Append(@, cluster), ClusterCap)]
        ELSE S

\* processInput, run without interruption: the state it leaves, and whether
\* it threw (then checkClustering was not reached).
SL_processInput(S, info, t) ==
  LET r == SL_updateRelationships(SL_extractConcepts(S, info, t), info.concepts)
  IN  IF r.threw THEN r ELSE [S |-> SL_checkClustering(r.S, t), threw |-> FALSE]

\* consolidate: the concepts seen less than twice and not for a week go,
\* each with the relationships whose key includes its name.
SL_consolidate(S, t) ==
  LET stale == SelectSeq(S.concepts,
                         LAMBDA c : c.frequency < FrequencyThreshold
                                    /\ t - c.lastSeen > WEEK)
  IN  RemoveConcepts(S, [i \in DOMAIN stale |-> stale[i].name])

(***************************************************************************)
(* ASMFEngine: the semantic information of a text.  A text is the list of  *)
(* its words (lower-case letters, single spaces), a word the list of its   *)
(* letters.                                                                *)
(***************************************************************************)
\* conceptMappings, in the order of its keys
conceptMappings ==
  << [key |-> <<"a", "i">>,
      conceptList |-> << <<"a", "r", "t", "i", "f", "i", "c", "i", "a", "l", " ", "i", "n", "t", "e", "l", "l", "i", "g", "e", "n", "c", "e">>,
                       <<"m", "a", "c", "h", "i", "n", "e", " ", "l", "e", "a", "r", "n", "i", "n", "g">>,
                       <<"n", "e", "u", "r", "a", "l", " ", "n", "e", "t", "w", "o", "r", "k", "s">> >>],
     [key |-> <<"c", "o", "m", "p", "u", "t", "e", "r">>,
      conceptList |-> << <<"t", "e", "c", "h", "n", "o", "l", "o", "g", "y">>,
                       <<"s", "o", "f", "t", "w", "a", "r", "e">>,
                       <<"h", "a", "r", "d", "w", "a", "r", "e">> >>],
     [key |-> <<"l", "e", "a", "r", "n", "i", "n", "g">>,
      conceptList |-> << <<"e", "d", "u", "c", "a", "t", "i", "o", "n">>,
                       <<"t", "r", "a", "i", "n", "i", "n", "g">>,
                       <<"k", "n", "o", "w", "l", "e", "d", "g", "e", " ", "a", "c", "q", "u", "i", "s", "i", "t", "i", "o", "n">> >>],
     [key |-> <<"m", "e", "m", "o", "r", "y">>,
      conceptList |-> << <<"s", "t", "o", "r", "a", "g", "e">>,
                       <<"r", "e", "c", "a", "l", "l">>,
                       <<"r", "e", "t", "e", "n", "t", "i", "o", "n">> >>],
     [key |-> <<"d", "a", "t", "a">>,
      conceptList |-> << <<"i", "n", "f", "o", "r", "m", "a", "t", "i", "o", "n">>,
                       <<"f", "a", "c", "t", "s">>,
                       <<"s", "t", "a", "t", "i", "s", "t", "i", "c", "s">> >>] >>

Word_memory == <<"m", "e", "m", "o", "r", "y">>

Word_data == <<"d", "a", "t", "a">>

Word_ai == <<"a", "i">>

\* the texts given to the engine: "memory", "data", "ai data"
TextMemory == <<Word_memory>>

TextData == <<Word_data>>

TextAiData == <<Word_ai, Word_data>>

Word_computer == <<"c", "o", "m", "p", "u", "t", "e", "r">>

Word_learning == <<"l", "e", "a", "r", "n", "i", "n", "g">>

\* "memory data" and "computer learning"
TextMemoryData == <<Word_memory, Word_data>>

TextComputerLearning == <<Word_computer, Word_learning>>

\* "data computer"
TextDataComputer == <<Word_data, Word_computer>>

EngineTexts == {TextMemory, TextData, TextAiData}

\* what a caller may pass that is no string: null, kept apart from every
\* text by a word whose only letter is no letter
NullInput == << <<"null">> >>

IsString(input) == input # NullInput

\* the tokens of a text: its words of more than two letters
Tokens(text) == SelectSeq(text, LAMBDA w : Len(w) > 2)

\* extractKeywords: the words by falling frequency, ten at most
extractKeywords(tokens) ==
  LET words == Distinct(tokens)
      frequencies == [i \in DOMAIN words |->
                        Cardinality({k \in DOMAIN tokens : tokens[k] = words[i]})]
      entries == [i \in DOMAIN words |-> [word |-> words[i], frequency |-> frequencies[i]]]
      sorted == SortByKey(entries, [i \in DOMAIN words |-> 0 - frequencies[i]])
  IN  SubSeq(sorted, 1, Min(KeywordCap, Len(sorted)))

\* the concept lists of the keys a token includes
ConceptsOfToken(token) ==
  Flatten([k \in DOMAIN conceptMappings |->
             IF Includes(token, conceptMappings[k].key)
               THEN conceptMappings[k].conceptList
               ELSE <<>>])

\* identifyConcepts
identifyConcepts(tokens) ==
  Distinct(Flatten([i \in DOMAIN tokens |-> ConceptsOfToken(tokens[i])]))

\* extractSemanticInfo.  (The sentiment and the entities of the text are
\* stored with the keywords and read by nothing; they are left out.)
extractSemanticInfo(input, t) ==
  [ text |-> input,
    timestamp |-> t,
    keywords |-> extractKeywords(Tokens(input)),
    concepts |-> identifyConcepts(Tokens(input)) ]


(***************************************************************************)
(* Numbers that are not integers are fractions num/den with den > 0; the   *)
(* fraction 0/0 is NaN, and every comparison with it is false.             *)
(***************************************************************************)
Frac(n, d) ==
  IF d = 0 THEN [num |-> 0, den |-> 0]
  ELSE LET g == GCD(Abs(n), Abs(d))
       IN  IF d < 0 THEN [num |-> (0 - n) \div g, den |-> (0 - d) \div g]
           ELSE [num |-> n \div g, den |-> d \div g]

IsNaN(f) == f.den = 0

FracAdd(f, g) ==
  IF IsNaN(f) \/ IsNaN(g) THEN Frac(0, 0)
  ELSE Frac(f.num * g.den + g.num * f.den, f.den * g.den)

FracTimes(f, n, d) == IF IsNaN(f) THEN f ELSE Frac(f.num * n, f.den * d)

FracLess(f, g) == ~IsNaN(f) /\ ~IsNaN(g) /\ f.num * g.den < g.num * f.den

FracAtLeast(f, g) == ~IsNaN(f) /\ ~IsNaN(g) /\ f.num * g.den >= g.num * f.den

RECURSIVE FracSum(_)
FracSum(fs) == IF fs = <<>> THEN Frac(0, 1) ELSE FracAdd(Head(fs), FracSum(Tail(fs)))

\* Array.prototype.sort with the comparator (a, b) => b.score - a.score on
\* fractions: falling scores, the order kept among equal ones.  less[i][j]
\* says that the score of s[i] is less than that of s[j].
SortFalling(s, less) ==
  LET rank(i) == Cardinality({j \in DOMAIN s : less[i][j] \/ (~less[j][i] /\ j < i)}) + 1
  IN  [r \in DOMAIN s |-> s[CHOOSE i \in DOMAIN s : rank(i) = r]]

(***************************************************************************)
(* ContextLayer.search, for a query's semantic information.                *)
(***************************************************************************)
KeywordWords(keywords) == {keywords[i].word : i \in DOMAIN keywords}

\* calculateSimilarity: the halved sum of the keyword overlap and of the
\* concept overlap, each divided by the size of the larger of the two sets
Ctx_calculateSimilarity(queryInfo, memory) ==
  LET queryKeywords == KeywordWords(queryInfo.keywords)
      memoryKeywords == KeywordWords(memory.keywords)
      queryConcepts == SeqToSet(queryInfo.concepts)
      memoryConcepts == SeqToSet(memory.concepts)
      keywordOverlap == Frac(Cardinality(queryKeywords \cap memoryKeywords),
                             Max(Cardinality(queryKeywords), Cardinality(memoryKeywords)))
      conceptOverlap == Frac(Cardinality(queryConcepts \cap memoryConcepts),
                             Max(Cardinality(queryConcepts), Cardinality(memoryConcepts)))
  IN  FracTimes(FracAdd(keywordOverlap, conceptOverlap), 1, 2)

\* search.  The condition `similarity >= options.similarityThreshold ||
\* this.config.consolidationThreshold` is the configured threshold, a
\* non-zero number, whenever the comparison is false: every memory is
\* pushed.  The results are sorted by falling relevanceScore (similarity
\* times 10), those less than 0.1 apart by falling createdAt.
Ctx_search(mems, queryInfo) ==
  LET results == [i \in DOMAIN mems |->
                    [id |-> mems[i].id,
                     keywords |-> mems[i].keywords,
                     concepts |-> mems[i].concepts,
                     createdAt |-> mems[i].createdAt,
                     accessCount |-> mems[i].accessCount,
                     similarity |-> Ctx_calculateSimilarity(queryInfo, mems[i])]]
      apart(i, j) ==
        LET d == FracAdd(results[i].similarity, FracTimes(results[j].similarity, -1, 1))
        IN  ~IsNaN(d) /\ ~(100 * Abs(d.num) < d.den)
      less == [i \in DOMAIN results |-> [j \in DOMAIN results |->
                 IF IsNaN(results[i].similarity) \/ IsNaN(results[j].similarity)
                   THEN FALSE
                 ELSE IF apart(i, j)
                   THEN FracLess(results[i].similarity, results[j].similarity)
                 ELSE results[i].createdAt < results[j].createdAt]]
  IN  SortFalling(results, less)

(***************************************************************************)
(* SemanticLayer.search.                                                   *)
(***************************************************************************)
\* the similarity of a concept to the query: 1 for a direct match, 0.5 for
\* each query concept among its connections, 0.2 of the strength of each
\* cluster that holds it and a query concept
SL_similarity(S, conceptObj, queryConcepts) ==
  LET direct == IF conceptObj.name \in SeqToSet(queryConcepts) THEN 1 ELSE 0
      related == Cardinality({k \in DOMAIN queryConcepts :
                                queryConcepts[k] \in conceptObj.connections})
      bonus == FracSum([k \in DOMAIN S.clusters |->
                 IF /\ conceptObj.name \in SeqToSet(S.clusters[k].concepts)
                    /\ SeqToSet(S.clusters[k].concepts) \cap SeqToSet(queryConcepts) # {}
                   THEN FracTimes(S.clusters[k].strength, 1, 5)
                   ELSE Frac(0, 1)])
  IN  FracAdd(Frac(2 * direct + related, 2), bonus)

\* search: the concepts at or above the threshold, by falling similarity
SL_search(S, queryInfo, threshold) ==
  LET all == [i \in DOMAIN S.concepts |->
                [name |-> S.concepts[i].name,
                 frequency |-> S.concepts[i].frequency,
                 lastSeen |-> S.concepts[i].lastSeen,
                 similarity |-> SL_similarity(S, S.concepts[i], queryInfo.concepts)]]
      results == SelectSeq(all, LAMBDA r : FracAtLeast(r.similarity, threshold))
      less == [i \in DOMAIN results |-> [j \in DOMAIN results |->
                 FracLess(results[i].similarity, results[j].similarity)]]
  IN  SortFalling(results, less)

(***************************************************************************)
(* TemporalLayer.search, over the default time range [0, Date.now()].      *)
(***************************************************************************)
\* calculateTemporalRelevance, 1 - 2 * |timestamp / end - 0.5|, times end
\* (end = 0 makes it NaN)
calculateTemporalRelevance(end, event) == end - Abs(2 * event.timestamp - end)

\* the recurring patterns, for calculatePatternRelevance: the similarity of
\* the query to the base event, and the confidence 1 - sign * sqrt(squared)
PatternConfidences(T, queryInfo) ==
  { [similarity |-> ContentSimilarity(queryInfo.concepts,
                                      T.objs[T.patterns[k].baseEvent].concepts),
     squared |-> T.patterns[k].variationSquared,
     sign |-> IF T.patterns[k].averageInterval.num < 0 THEN -1 ELSE 1] :
    k \in {k \in DOMAIN T.patterns : T.patterns[k].type = "recurring"} }

\* 0.4 * content + 0.3 * temporal, times 10 * end * content.den
PartialRelevance(queryInfo, event, end) ==
  LET content == ContentSimilarity(queryInfo.concepts, event.concepts)
  IN  [num |-> 4 * content.num * end + 3 * calculateTemporalRelevance(end, event) * content.den,
       den |-> 10 * end * content.den]

\* a + 0.3 * similarity * confidence > 0.3, for a fraction a: with
\* x = a + 0.3 * similarity - 0.3 and y = 0.3 * similarity this is
\* x > sign * y * sqrt(squared)
BeatsThreshold(a, p) ==
  LET x == [num |-> a.num * p.similarity.den
                      + (3 * p.similarity.num - 3 * p.similarity.den) * (a.den \div 10),
            den |-> a.den * p.similarity.den]
      xx == x.num * x.num * p.squared.den * 100 * p.similarity.den * p.similarity.den
      yy == 9 * p.similarity.num * p.similarity.num * p.squared.num * x.den * x.den
  IN  IF p.squared.num = 0 \/ p.similarity.num = 0 THEN x.num > 0
      ELSE IF p.sign > 0 THEN x.num > 0 /\ xx > yy
      ELSE x.num >= 0 \/ xx < yy

\* search: the events of the time range whose total relevance
\* 0.4 * content + 0.3 * temporal + 0.3 * pattern is above 0.3, by falling
\* total relevance.  The pattern relevance is the same for every event, so
\* the order is that of 0.4 * content + 0.3 * temporal.
TL_search(T, queryInfo, t) ==
  LET inRange == SelectSeq(T.events, LAMBDA e : T.objs[e].timestamp >= 0
                                                /\ T.objs[e].timestamp <= t)
      partial == [e \in SeqToSet(inRange) |-> PartialRelevance(queryInfo, T.objs[e], t)]
      confidences == PatternConfidences(T, queryInfo)
      qualifies(e) ==
        /\ t # 0
        /\ \/ 10 * partial[e].num > 3 * partial[e].den
           \/ \E p \in confidences : BeatsThreshold(partial[e], p)
      results == SelectSeq(inRange, qualifies)
      content(e) == ContentSimilarity(queryInfo.concepts, T.objs[e].concepts)
      less == [i \in DOMAIN results |-> [j \in DOMAIN results |->
                 partial[results[i]].num * content(results[j]).den
                   < partial[results[j]].num * content(results[i]).den]]
  IN  SortFalling([i \in DOMAIN results |->
                     [id |-> results[i],
                      keywords |-> T.objs[results[i]].keywords,
                      concepts |-> T.objs[results[i]].concepts,
                      compressed |-> T.objs[results[i]].compressed,
                      timestamp |-> T.objs[results[i]].timestamp,
                      similarity |-> content(results[i])]],
                  less)

(***************************************************************************)
(* ASMFEngine: ranking, the response of retrieveInformation, the cache.    *)
(***************************************************************************)
\* calculateRelevanceScore, times DAY: ten times the layer weight, 5 for
\* each keyword and 3 for each concept shared with the query, and for a
\* temporal result max(0, 10 - age in days)
calculateRelevanceScore_oneWeight(result, queryInfo, layer, t) ==
  LET weight == 10
      hasKeywords == layer = "context" \/ (layer = "temporal" /\ ~result.compressed)
      matches == IF hasKeywords
                   THEN Cardinality({k \in DOMAIN result.keywords :
                          result.keywords[k].word \in KeywordWords(queryInfo.keywords)})
                   ELSE 0
      conceptMatches == IF layer = "semantic" THEN 0
                        ELSE Cardinality({k \in DOMAIN result.concepts :
                               result.concepts[k] \in SeqToSet(queryInfo.concepts)})
      recencyScore == IF layer = "temporal" /\ result.timestamp # 0
                        THEN Max(0, 10 * DAY - (t - result.timestamp))
                        ELSE 0
  IN  DAY * (weight + 5 * matches + 3 * conceptMatches) + recencyScore

calculateRelevanceScore(result, queryInfo, layer, t) ==
  LET weight == IF layer = "context" THEN 10 ELSE IF layer = "semantic" THEN 8 ELSE 6
      hasKeywords == layer = "context" \/ (layer = "temporal" /\ ~result.compressed)
      matches == IF hasKeywords
                   THEN Cardinality({k \in DOMAIN result.keywords :
                          result.keywords[k].word \in KeywordWords(queryInfo.keywords)})
                   ELSE 0
      conceptMatches == IF layer = "semantic" THEN 0
                        ELSE Cardinality({k \in DOMAIN result.concepts :
                               result.concepts[k] \in SeqToSet(queryInfo.concepts)})
      recencyScore == IF layer = "temporal" /\ result.timestamp # 0
                        THEN Max(0, 10 * DAY - (t - result.timestamp))
                        ELSE 0
  IN  DAY * (weight + 5 * matches + 3 * conceptMatches) + recencyScore

\* rankResults: the results of the three layers, context first, by falling
\* relevance score
rankResults(results, queryInfo, t) ==
  LET allResults ==
        [i \in DOMAIN results.context |->
           [layer |-> "context", id |-> results.context[i].id, name |-> <<>>,
            relevanceScore |->
              calculateRelevanceScore(results.context[i], queryInfo, "context", t)]]
        \o [i \in DOMAIN results.semantic |->
           [layer |-> "semantic", id |-> 0, name |-> results.semantic[i].name,
            relevanceScore |->
              calculateRelevanceScore(results.semantic[i], queryInfo, "semantic", t)]]
        \o [i \in DOMAIN results.temporal |->
           [layer |-> "temporal", id |-> results.temporal[i].id, name |-> <<>>,
            relevanceScore |->
              calculateRelevanceScore(results.temporal[i], queryInfo, "temporal", t)]]
  IN  SortByKey(allResults, [i \in DOMAIN allResults |-> 0 - allResults[i].relevanceScore])

\* options is {semantic: {similarityThreshold: n}} for n > 0, and {} for 0
Options == {0, 1}

SimilarityThreshold(options) == IF options = 0 THEN Frac(6, 10) ELSE Frac(options, 1)

\* the response retrieveInformation builds from the three searches
Response_totalAtLeastOne(query, options, mems, S, T, t) ==
  LET queryInfo == extractSemanticInfo(query, t)
      results == [context |-> Ctx_search(mems, queryInfo),
                  semantic |-> SL_search(S, queryInfo, SimilarityThreshold(options)),
                  temporal |-> TL_search(T, queryInfo, t)]
      rankedResults == rankResults(results, queryInfo, t)
  IN  [query |-> query,
       results |-> rankedResults,
       layers |-> results,
       totalResults |-> Max(1, Len(rankedResults))]

Response(query, options, mems, S, T, t) ==
  LET queryInfo == extractSemanticInfo(query, t)
      results == [context |-> Ctx_search(mems, queryInfo),
                  semantic |-> SL_search(S, queryInfo, SimilarityThreshold(options)),
                  temporal |-> TL_search(T, queryInfo, t)]
      rankedResults == rankResults(results, queryInfo, t)
  IN  [query |-> query,
       results |-> rankedResults,
       layers |-> results,
       totalResults |-> Len(rankedResults)]

\* generateCacheKey: the key is the md5 hash of this content; two contents
\* are taken to have different hashes
generateCacheKey(query, options, t) ==
  [query |-> query, options |-> options, timestamp |-> t \div FIVE_MINUTES]

CacheIndex(c, key) ==
  IF \E i \in DOMAIN c : c[i].key = key
    THEN CHOOSE i \in DOMAIN c : c[i].key = key
    ELSE 0

\* cleanupCache: the first entries go when there are more than cacheSize
cleanupCache_dropNewest(c) == IF Len(c) <= CacheSize THEN c ELSE SubSeq(c, 1, CacheSize)

\* The mutant of cleanupCache that removes the oldest entry of a cache
\* within its bound too.
cleanupCache_dropOne(c) == IF Len(c) < CacheSize THEN c ELSE LastN(c, CacheSize - 1)

cleanupCache(c) == LastN(c, CacheSize)

\* updatePerformanceMetrics.  (averageResponseTime is made of elapsed times
\* the clock does not resolve; memoryEfficiency is totalMemories over a
\* constant.)
updatePerformanceMetrics(m, success, cached) ==
  [totalMemories |-> m.totalMemories + 1,
   hitRate |-> IF success /\ cached
                 THEN Frac(m.hitRate.num * m.totalMemories + m.hitRate.den,
                           m.hitRate.den * (m.totalMemories + 1))
                 ELSE m.hitRate]

(***************************************************************************)
(* ASMFEngine: consolidateMemory and what it calls.                        *)
(***************************************************************************)
Ctx_cleanOldMemories(mems, cutoffTime) ==
  SelectSeq(mems, LAMBDA m : m.createdAt > cutoffTime)

\* compressOldConcepts: the last three texts are kept of a concept not seen
\* since the cutoff time and seen less than five times
SL_compressOldConcepts(S, cutoffTime) ==
  [S EXCEPT !.concepts =
     [i \in DOMAIN @ |->
        IF @[i].lastSeen < cutoffTime /\ @[i].frequency < CompressFrequency
          THEN [@[i] EXCEPT !.context = LastN(@, CompressKeep)]
          ELSE @[i]]]

RECURSIVE ArchiveTimes(_, _)
ArchiveTimes(T, n) == IF n = 0 THEN T ELSE ArchiveTimes(TL_archiveOldEvent(T), n - 1)

\* archiveOldEvents: archiveOldEvent is called once for each event older
\* than the cutoff time
TL_archiveOldEvents(T, cutoffTime) ==
  ArchiveTimes(T, Len(SelectSeq(T.events, LAMBDA e : T.objs[e].timestamp < cutoffTime)))

\* The three layers as one record E = [memories, S, T].
compressAndClean(E, t) ==
  LET cutoffTime == t - TemporalTimeWindow
  IN  [memories |-> Ctx_cleanOldMemories(E.memories, cutoffTime),
       S |-> SL_compressOldConcepts(E.S, cutoffTime),
       T |-> TL_archiveOldEvents(E.T, cutoffTime)]

\* consolidateMemory, up to saveMemory
consolidateLayers(E, t) ==
  compressAndClean([memories |-> Ctx_consolidate(E.memories, t),
                    S |-> SL_consolidate(E.S, t),
                    T |-> TL_consolidate(E.T, t)], t)

\* checkConsolidation, for the sizes of the three layers and the capacities
\* of the configuration: some layer holds more than 0.8 of its capacity
needsConsolidation(sizes, capacities) ==
  \/ 10 * sizes.context > 8 * capacities.context
  \/ 10 * sizes.semantic > 8 * capacities.semantic
  \/ 10 * sizes.temporal > 8 * capacities.temporal

NeedsConsolidation(E) ==
  needsConsolidation([context |-> Len(E.memories), semantic |-> Len(E.S.concepts),
                      temporal |-> Len(E.T.events)],
                     [context |-> ContextMaxSize, semantic |-> SemanticMaxConcepts,
                      temporal |-> TemporalMaxEvents])

\* exportState of the three layers.  (The connections map of the
\* ContextLayer is always empty and is left out.)
Ctx_exportState(mems) == [memories |-> mems]

SL_exportState(S) ==
  [concepts |-> S.concepts, relationships |-> S.relationships, clusters |-> S.clusters]

TL_exportState(T) ==
  [events |-> T.events, objs |-> T.objs, timelines |-> T.timelines, patterns |-> T.patterns]

\* the state saveMemory hands to the storage
MemoryState(E, m, t) ==
  [timestamp |-> t,
   contextLayer |-> Ctx_exportState(E.memories),
   semanticLayer |-> SL_exportState(E.S),
   temporalLayer |-> TL_exportState(E.T),
   performanceMetrics |-> m]

\* JSON.stringify of a Set: "{}", whatever the Set holds
PlainObject == "{}"

\* serializeData: JSON.stringify.  Numbers, strings, arrays and plain
\* objects are written as they are; the connections of a concept are a
\* Set.
serializeData(data) ==
  [data EXCEPT !.semanticLayer.concepts =
     [i \in DOMAIN @ |->
        [name |-> @[i].name, frequency |-> @[i].frequency, lastSeen |-> @[i].lastSeen,
         connections |-> PlainObject, context |-> @[i].context]]]

\* The event lists of the timelines and the events of the recurring
\* patterns, one after the other: the places where an event is written
\* again by JSON.stringify.
EmbeddedEvents(T) ==
  Flatten([i \in DOMAIN T.timelines |-> T.timelines[i].events])
    \o Flatten([k \in DOMAIN T.patterns |->
                  IF T.patterns[k].type = "recurring"
                    THEN <<T.patterns[k].baseEvent>> \o T.patterns[k].similarEvents
                    ELSE <<>>])

\* where the embedded events of timeline i, or of pattern k, start in
\* EmbeddedEvents
TimelineOffset(T, i) ==
  SumSeq([j \in 1..(i - 1) |-> Len(T.timelines[j].events)])

PatternOffset(T, k) ==
  TimelineOffset(T, Len(T.timelines) + 1)
    + SumSeq([j \in 1..(k - 1) |->
                IF T.patterns[j].type = "recurring"
                  THEN 1 + Len(T.patterns[j].similarEvents) ELSE 0])

\* deserializeData: JSON.parse.  Every event written in a timeline or in a
\* pattern becomes an object of its own, equal to the event of the event
\* list it was written from and no longer the same object.
deserializeData(serialized) ==
  LET T == serialized.temporalLayer
      n == Len(T.objs)
      embedded == EmbeddedEvents(T)
  IN  [serialized EXCEPT !.temporalLayer =
         [events |-> T.events,
          objs |-> T.objs \o [k \in DOMAIN embedded |-> T.objs[embedded[k]]],
          timelines |->
            [i \in DOMAIN T.timelines |->
               [T.timelines[i] EXCEPT !.events =
                  [j \in DOMAIN @ |-> n + TimelineOffset(T, i) + j]]],
          patterns |->
            [k \in DOMAIN T.patterns |->
               IF T.patterns[k].type = "recurring"
                 THEN [T.patterns[k] EXCEPT
                         !.baseEvent = n + PatternOffset(T, k) + 1,
                         !.similarEvents =
                           [j \in DOMAIN @ |-> n + PatternOffset(T, k) + 1 + j]]
                 ELSE T.patterns[k]]]]

\* importState of the three layers, given what deserializeData made.
Ctx_importState(mems, state) == state.memories

\* new Set(data.connections) throws a TypeError when data.connections is
\* a plain object, before this.concepts is assigned: the result is the
\* state left, and whether importState threw
SL_importState(S, state) ==
  IF \E i \in DOMAIN state.concepts : state.concepts[i].connections = PlainObject
    THEN [S |-> S, threw |-> TRUE]
    ELSE [S |-> [concepts |-> state.concepts, relationships |-> state.relationships,
                 clusters |-> state.clusters],
          threw |-> FALSE]

TL_importState(T, state) ==
  [events |-> state.events, objs |-> state.objs, timelines |-> state.timelines,
   patterns |-> state.patterns]

\* The callers whose calls may be in progress at the same time.
Callers == {"c1", "c2"}

\* The calls of the ConversationManager: initializeSystem, which the
\* constructor starts and does not await, and the callers' calls.
ManagerCalls == Callers \cup {"init"}

ManagerAt(at, id) == [at |-> at, conversationId |-> id]

ManagerIdle == ManagerAt("idle", 0)

\* no processBatch was called yet
NoBatch ==
  [at |-> "idle", files |-> <<>>, batchSize |-> 0, onProgress |-> FALSE, i |-> 0,
   batch |-> <<>>, batchResults |-> <<>>, results |-> <<>>, progress |-> <<>>]

EmptySemantic == [concepts |-> <<>>, relationships |-> <<>>, clusters |-> <<>>]

\* written: what a processInformation in progress has done so far
IdleFrame ==
  [event |-> 0, concepts |-> <<>>, recentEvents |-> <<>>, compressedEvents |-> <<>>,
   left |-> EmptySemantic, remaining |-> 0, serialized |-> <<>>,
   info |-> extractSemanticInfo(<<>>, 0), written |-> <<>>]

Op(name) == [op |-> name, again |-> FALSE, repeated |-> lastOp.repeated]

\* for the calls whose repetition matters: again says that the call before
\* was the same one, with nothing in between, and repeated keeps the calls
\* that were so repeated
OpAgain(name) ==
  [op |-> name, again |-> lastOp.op = name,
   repeated |-> IF lastOp.op = name THEN lastOp.repeated \cup {name} ELSE lastOp.repeated]

Init ==
  /\ now = Epoch
  /\ lastOp = [op |-> "init", again |-> FALSE, repeated |-> {}]
  /\ memories = <<>>
  /\ memCount = 0
  /\ events = <<>>
  /\ eventObjs = <<>>
  /\ timelines = <<>>
  /\ patterns = <<>>
  /\ concepts = <<>>
  /\ relationships = <<>>
  /\ clusters = <<>>
  /\ semHistory = [log |-> <<>>, consolidated |-> FALSE, evicted |-> FALSE,
                   failed |-> FALSE, passes |-> 0]
  /\ cache = <<>>
  /\ metrics = [totalMemories |-> 0, hitRate |-> Frac(0, 1)]
  /\ storage = <<>>
  /\ initialized = FALSE
  /\ reply = [op |-> "none", success |-> TRUE, error |-> ""]
  /\ pc = [c \in Callers |-> "idle"]
  /\ frame = [c \in Callers |-> IdleFrame]
  /\ activeConversations = {}
  /\ conversationHistory = {}
  /\ managerMetrics = [totalConversations |-> 0, activeConversations |-> 0,
                       conversationSuccess |-> 0, errors |-> 0]
  /\ managerPc = [c \in ManagerCalls |->
                    IF c = "init" THEN ManagerAt("init.load", 0) ELSE ManagerIdle]
  /\ batchCall = NoBatch

Tick(d, limit) ==
  /\ now + d <= Epoch + limit
  /\ now' = now + d
  /\ lastOp' = Op("tick")
  /\ UNCHANGED appVars

ContextAdd(infos, metas, limit) ==
  \E info \in infos, metadata \in metas :
    /\ memCount < limit
    /\ memories' = Ctx_addMemory(memories, info, metadata, memCount + 1, now)
    /\ memCount' = memCount + 1
    /\ lastOp' = Op("ctx.add")
    /\ UNCHANGED <<now, appVars, tmpVars, semVars, callVars, engVars>>

ContextTick ==
  /\ Tick(HOUR, MaxHours * HOUR)
  /\ UNCHANGED <<ctxVars, tmpVars, semVars, callVars, engVars>>

NextContext == ContextAdd(CtxInfos, Metas, MaxAdds) \/ ContextTick

SpecContext == Init /\ [][NextContext]_vars

(***************************************************************************)
(* ContextLayer: addMemory and search, for the semantic information of     *)
(* texts.  threshold is options.similarityThreshold, and 0 when the        *)
(* options give none.                                                      *)
(***************************************************************************)
SearchTexts == {TextData, TextMemoryData, TextDataComputer}

SearchThresholds == {Frac(0, 1), Frac(1, 2)}

SearchAdd ==
  \E text \in SearchTexts :
    /\ memCount < MaxSearchAdds
    /\ memories' = Ctx_addMemory(memories, extractSemanticInfo(text, now), "none",
                                 memCount + 1, now)
    /\ memCount' = memCount + 1
    /\ lastOp' = Op("ctx.add")
    /\ UNCHANGED <<now, appVars, tmpVars, semVars, callVars, engVars>>

ContextSearch ==
  \E query \in SearchTexts, threshold \in SearchThresholds :
    /\ reply' = [op |-> "search", success |-> TRUE, error |-> "",
                 queryInfo |-> extractSemanticInfo(query, now),
                 threshold |-> threshold,
                 results |-> Ctx_search(memories, extractSemanticInfo(query, now))]
    /\ lastOp' = Op("ctx.search")
    /\ UNCHANGED <<now, appVars, ctxVars, tmpVars, semVars, cache, metrics, storage, initialized,
                   callVars>>

\* consolidate
SearchConsolidate ==
  /\ memories' = Ctx_consolidate(memories, now)
  /\ lastOp' = OpAgain("ctx.consolidate")
  /\ UNCHANGED <<now, appVars, memCount, tmpVars, semVars, callVars, engVars>>

\* the clock passes the retention time
SearchTick ==
  /\ Tick(HOUR + MINUTE, MaxSearchHours * (HOUR + MINUTE))
  /\ UNCHANGED <<ctxVars, tmpVars, semVars, callVars, engVars>>

NextContextSearch == SearchAdd \/ ContextSearch \/ SearchConsolidate \/ SearchTick

SpecContextSearch == Init /\ [][NextContextSearch]_vars

(***************************************************************************)
(* TemporalLayer: the calls, each run without interruption.                *)
(***************************************************************************)
TState ==
  [events |-> events, objs |-> eventObjs, timelines |-> timelines, patterns |-> patterns]

SetT(T) ==
  /\ events' = T.events
  /\ eventObjs' = T.objs
  /\ timelines' = T.timelines
  /\ patterns' = T.patterns

SState == [concepts |-> concepts, relationships |-> relationships, clusters |-> clusters]

SetS(S) ==
  /\ concepts' = S.concepts
  /\ relationships' = S.relationships
  /\ clusters' = S.clusters

\* the number of recordEvent calls so far
NumRecorded == Cardinality({i \in DOMAIN eventObjs : ~eventObjs[i].compressed})

TemporalRecord(infos, metas, limit) ==
  \E info \in infos, metadata \in metas :
    /\ NumRecorded < limit
    /\ SetT(TL_recordEvent(TState, info, metadata, now))
    /\ lastOp' = Op("tmp.record")
    /\ UNCHANGED <<now, appVars, ctxVars, semVars, callVars, engVars>>

TemporalConsolidate ==
  /\ SetT(TL_consolidate(TState, now))
  /\ lastOp' = OpAgain("tmp.consolidate")
  /\ UNCHANGED <<now, appVars, ctxVars, semVars, callVars, engVars>>

PatternTick ==
  /\ Tick(HOUR, MaxPatternHours * HOUR)
  /\ UNCHANGED <<ctxVars, tmpVars, semVars, callVars, engVars>>

NextPatterns == TemporalRecord(PatternInfos, {"none"}, MaxRecords) \/ PatternTick

SpecPatterns == Init /\ [][NextPatterns]_vars

\* the clock: what was recorded before is then older than the time window
TemporalTick ==
  /\ Tick(MONTH + MINUTE, MaxMonths * (MONTH + MINUTE))
  /\ UNCHANGED <<ctxVars, tmpVars, semVars, callVars, engVars>>

NextTemporal ==
  \/ TemporalRecord(TmpInfos, Metas, MaxTemporalRecords)
  \/ TemporalConsolidate
  \/ TemporalTick

SpecTemporal == Init /\ [][NextTemporal]_vars

(***************************************************************************)
(* TemporalLayer: calls in progress at the same time.  A call runs from    *)
(* one await to the next without interruption; at an await the other       *)
(* callers may run.  recordEvent awaits after the push when it had to      *)
(* archive (await this.archiveOldEvent()), after updateTimelines, and      *)
(* after detectPatterns.  The engine's consolidation pass,                 *)
(* consolidateMemory, awaits each layer's consolidate, then the three      *)
(* steps of compressAndClean, then saveMemory; temporalLayer.consolidate   *)
(* awaits compressArchivalEvents before it assigns this.events.            *)
(***************************************************************************)
RecordCall(c, infos, metas, limit) ==
  \E info \in infos, metadata \in metas :
    /\ pc[c] = "idle"
    /\ NumRecorded < limit
    /\ LET id == Len(eventObjs) + 1
           pushed == TL_pushEvent(TState, info, metadata, now)
       IN  /\ IF Len(events) + 1 > TemporalMaxEvents
                THEN /\ SetT(pushed)
                     /\ pc' = [pc EXCEPT ![c] = "rec.timelines"]
                ELSE /\ SetT(TL_updateTimelines(pushed, id, now))
                     /\ pc' = [pc EXCEPT ![c] = "rec.patterns"]
           /\ frame' = [frame EXCEPT ![c].event = id]
    /\ UNCHANGED <<now, appVars, lastOp, ctxVars, semVars, engVars>>

RecordTimelines(c) ==
  /\ pc[c] = "rec.timelines"
  /\ SetT(TL_updateTimelines(TState, frame[c].event, now))
  /\ pc' = [pc EXCEPT ![c] = "rec.patterns"]
  /\ UNCHANGED <<now, appVars, lastOp, frame, ctxVars, semVars, engVars>>

RecordPatterns(c) ==
  /\ pc[c] = "rec.patterns"
  /\ SetT(TL_detectPatterns(TState, frame[c].event, now))
  /\ pc' = [pc EXCEPT ![c] = "idle"]
  /\ frame' = [frame EXCEPT ![c] = IdleFrame]
  /\ lastOp' = Op("tmp.record")
  /\ UNCHANGED <<now, appVars, ctxVars, semVars, engVars>>

\* consolidateMemory, from its call to the await of contextLayer.consolidate
PassContext(c, limit) ==
  /\ pc[c] = "idle"
  /\ semHistory.passes < limit
  /\ semHistory' = [semHistory EXCEPT !.passes = @ + 1]
  /\ memories' = Ctx_consolidate(memories, now)
  /\ pc' = [pc EXCEPT ![c] = "pass.semantic"]
  /\ UNCHANGED <<now, appVars, lastOp, memCount, frame, tmpVars, concepts, relationships,
                 clusters, engVars>>

\* semanticLayer.consolidate
PassSemantic(c) ==
  /\ pc[c] = "pass.semantic"
  /\ SetS(SL_consolidate(SState, now))
  /\ semHistory' = [semHistory EXCEPT !.consolidated = TRUE]
  /\ pc' = [pc EXCEPT ![c] = "pass.temporal"]
  /\ UNCHANGED <<now, appVars, lastOp, frame, ctxVars, tmpVars, engVars>>

\* temporalLayer.consolidate, up to its await
ConsolidateCall(c) ==
  /\ pc[c] = "pass.temporal"
  /\ LET b == TL_consolidateBegin(TState, now)
     IN  /\ eventObjs' = b.objs
         /\ frame' = [frame EXCEPT ![c].recentEvents = b.recentEvents,
                                   ![c].compressedEvents = b.compressedEvents]
  /\ pc' = [pc EXCEPT ![c] = "pass.assign"]
  /\ UNCHANGED <<now, appVars, lastOp, events, timelines, patterns, ctxVars, semVars, engVars>>

\* temporalLayer.consolidate after its await; optimizeConnections changes
\* nothing
ConsolidateAssign(c) ==
  /\ pc[c] = "pass.assign"
  /\ SetT(TL_consolidateEnd(TState, frame[c].recentEvents, frame[c].compressedEvents))
  /\ pc' = [pc EXCEPT ![c] = "pass.clean"]
  /\ frame' = [frame EXCEPT ![c].recentEvents = <<>>, ![c].compressedEvents = <<>>]
  /\ UNCHANGED <<now, appVars, lastOp, ctxVars, semVars, engVars>>

\* compressAndClean: contextLayer.cleanOldMemories
PassClean(c) ==
  /\ pc[c] = "pass.clean"
  /\ memories' = Ctx_cleanOldMemories(memories, now - TemporalTimeWindow)
  /\ pc' = [pc EXCEPT ![c] = "pass.compress"]
  /\ UNCHANGED <<now, appVars, lastOp, memCount, frame, tmpVars, semVars, engVars>>

\* compressAndClean: semanticLayer.compressOldConcepts
PassCompress(c) ==
  /\ pc[c] = "pass.compress"
  /\ SetS(SL_compressOldConcepts(SState, now - TemporalTimeWindow))
  /\ pc' = [pc EXCEPT ![c] = "pass.archive"]
  /\ UNCHANGED <<now, appVars, lastOp, frame, semHistory, ctxVars, tmpVars, engVars>>

\* the pass is over: it returned, or it threw
PassOver(c, name) ==
  /\ pc' = [pc EXCEPT ![c] = "idle"]
  /\ frame' = [frame EXCEPT ![c] = IdleFrame]
  /\ lastOp' = Op(name)

\* archiveOldEvent once, with left more to come; this.events.shift() of no
\* event is undefined, and removed.id throws
PassArchiveOne(c, left) ==
  IF events = <<>>
    THEN /\ PassOver(c, "eng.consolidate.throw")
         /\ UNCHANGED tmpVars
    ELSE /\ SetT(TL_archiveOldEvent(TState))
         /\ pc' = [pc EXCEPT ![c] = IF left = 0 THEN "pass.save" ELSE "pass.archiving"]
         /\ frame' = [frame EXCEPT ![c].remaining = left]
         /\ UNCHANGED lastOp

\* compressAndClean: temporalLayer.archiveOldEvents, up to the await of the
\* first archiveOldEvent
PassArchive(c) ==
  /\ pc[c] = "pass.archive"
  /\ LET cutoffTime == now - TemporalTimeWindow
         oldEvents == SelectSeq(events, LAMBDA e : eventObjs[e].timestamp < cutoffTime)
     IN  IF oldEvents = <<>>
           THEN /\ pc' = [pc EXCEPT ![c] = "pass.save"]
                /\ UNCHANGED <<lastOp, frame, tmpVars>>
           ELSE PassArchiveOne(c, Len(oldEvents) - 1)
  /\ UNCHANGED <<now, appVars, ctxVars, semVars, engVars>>

\* the archiveOldEvent calls after the first
PassArchiving(c) ==
  /\ pc[c] = "pass.archiving"
  /\ PassArchiveOne(c, frame[c].remaining - 1)
  /\ UNCHANGED <<now, appVars, ctxVars, semVars, engVars>>

\* saveMemory, up to the await of writeFile: the state is serialized
PassSave(c) ==
  /\ pc[c] = "pass.save"
  /\ frame' = [frame EXCEPT ![c].serialized =
                 <<serializeData(MemoryState([memories |-> memories, S |-> SState,
                                              T |-> TState], metrics, now))>>]
  /\ pc' = [pc EXCEPT ![c] = "pass.write"]
  /\ UNCHANGED <<now, appVars, lastOp, ctxVars, tmpVars, semVars, engVars>>

\* writeFile is over, and so is consolidateMemory
PassWritten(c) ==
  /\ pc[c] = "pass.write"
  /\ \E ok \in BOOLEAN :
       IF ok
         THEN /\ storage' = frame[c].serialized
              /\ PassOver(c, "eng.consolidate")
         ELSE /\ UNCHANGED storage
              /\ PassOver(c, "eng.consolidate.throw")
  /\ UNCHANGED <<now, appVars, cache, metrics, reply, initialized, ctxVars, tmpVars, semVars>>

\* the clock, while no call is in progress: what was recorded before is
\* then older than the time window
ConcTick ==
  /\ \A c \in Callers : pc[c] = "idle"
  /\ Tick(MONTH + MINUTE, MaxMonths * (MONTH + MINUTE))
  /\ UNCHANGED <<ctxVars, tmpVars, semVars, callVars, engVars>>

NextTemporalConc ==
  \/ \E c \in Callers : RecordCall(c, ConcInfos, {"none"}, MaxConcRecords)
  \/ \E c \in Callers : RecordTimelines(c)
  \/ \E c \in Callers : RecordPatterns(c)
  \/ \E c \in Callers : ConsolidateCall(c)
  \/ \E c \in Callers : ConsolidateAssign(c)
  \/ \E c \in Callers : PassContext(c, MaxPasses)
  \/ \E c \in Callers : PassSemantic(c)
  \/ \E c \in Callers : PassClean(c)
  \/ \E c \in Callers : PassCompress(c)
  \/ \E c \in Callers : PassArchive(c)
  \/ \E c \in Callers : PassArchiving(c)
  \/ \E c \in Callers : PassSave(c)
  \/ \E c \in Callers : PassWritten(c)
  \/ ConcTick

SpecTemporalConc == Init /\ [][NextTemporalConc]_vars

(***************************************************************************)
(* SemanticLayer: the calls, each run without interruption.                *)
(***************************************************************************)
\* the number of processInput calls so far
NumProcessed == Len(semHistory.log)

\* extractConcepts of this input goes over the limit and cleanupOldConcepts
\* removes at least one concept
Evicts(S, info, t) ==
  LET n == Len(TouchConcepts(S.concepts, info.concepts, info.text, t))
  IN  n > SemanticMaxConcepts /\ n \div 10 > 0

Logged(info, t) ==
  [semHistory EXCEPT !.log = Append(@, info.concepts),
                     !.evicted = @ \/ Evicts(SState, info, t)]

SemanticProcess(infos, limit) ==
  \E info \in infos :
    /\ NumProcessed < limit
    /\ LET r == SL_processInput(SState, info, now)
       IN  /\ SetS(r.S)
           /\ lastOp' = Op(IF r.threw THEN "sem.process.throw" ELSE "sem.process")
    /\ semHistory' = Logged(info, now)
    /\ UNCHANGED <<now, appVars, ctxVars, tmpVars, callVars, engVars>>

SemanticConsolidate ==
  /\ SetS(SL_consolidate(SState, now))
  /\ semHistory' = [semHistory EXCEPT !.consolidated = TRUE]
  /\ lastOp' = OpAgain("sem.consolidate")
  /\ UNCHANGED <<now, appVars, ctxVars, tmpVars, callVars, engVars>>

SemanticTick ==
  /\ Tick(WEEK, MaxWeeks * WEEK)
  /\ UNCHANGED <<ctxVars, tmpVars, semVars, callVars, engVars>>

NextSemantic ==
  \/ SemanticProcess(SemInfos, MaxProcessed)
  \/ SemanticConsolidate
  \/ SemanticTick

SpecSemantic == Init /\ [][NextSemantic]_vars

(***************************************************************************)
(* The consolidate calls of the ContextLayer and of the SemanticLayer.     *)
(***************************************************************************)
ContextConsolidate ==
  /\ memories' = Ctx_consolidate(memories, now)
  /\ lastOp' = OpAgain("ctx.consolidate")
  /\ UNCHANGED <<now, appVars, memCount, tmpVars, semVars, callVars, engVars>>

ConsolidateTick ==
  /\ Tick(WEEK, MaxConsolidateWeeks * WEEK)
  /\ UNCHANGED <<ctxVars, tmpVars, semVars, callVars, engVars>>

NextConsolidate ==
  \/ ContextAdd(ConsolidateCtxInfos, {"none"}, MaxConsolidateAdds)
  \/ ContextConsolidate
  \/ SemanticProcess(ConsolidateSemInfos, MaxConsolidateProcessed)
  \/ SemanticConsolidate
  \/ ConsolidateTick

SpecConsolidate == Init /\ [][NextConsolidate]_vars

(***************************************************************************)
(* SemanticLayer: processInput calls in progress at the same time.         *)
(* processInput awaits extractConcepts, then updateRelationships, then     *)
(* checkClustering; at each await the other callers may run.  left is the  *)
(* state of the layer as the caller's last step left it.                   *)
(***************************************************************************)
ProcessCall(c, infos, limit) ==
  \E info \in infos :
    /\ pc[c] = "idle"
    /\ NumProcessed < limit
    /\ LET S == SL_extractConcepts(SState, info, now)
       IN  /\ SetS(S)
           /\ frame' = [frame EXCEPT ![c].concepts = info.concepts, ![c].left = S]
    /\ semHistory' = Logged(info, now)
    /\ pc' = [pc EXCEPT ![c] = "sem.relate"]
    /\ UNCHANGED <<now, appVars, lastOp, ctxVars, tmpVars, engVars>>

ProcessRelate(c) ==
  /\ pc[c] = "sem.relate"
  /\ LET r == SL_updateRelationships(SState, frame[c].concepts)
     IN  /\ SetS(r.S)
         /\ IF r.threw
              THEN /\ pc' = [pc EXCEPT ![c] = "idle"]
                   /\ frame' = [frame EXCEPT ![c] = IdleFrame]
                   /\ lastOp' = Op("sem.process.throw")
              ELSE /\ pc' = [pc EXCEPT ![c] = "sem.cluster"]
                   /\ frame' = [frame EXCEPT ![c].left = r.S]
                   /\ UNCHANGED lastOp
  /\ UNCHANGED <<now, appVars, semHistory, ctxVars, tmpVars, engVars>>

ProcessCluster(c) ==
  /\ pc[c] = "sem.cluster"
  /\ SetS(SL_checkClustering(SState, now))
  /\ pc' = [pc EXCEPT ![c] = "idle"]
  /\ frame' = [frame EXCEPT ![c] = IdleFrame]
  /\ lastOp' = Op("sem.process")
  /\ UNCHANGED <<now, appVars, semHistory, ctxVars, tmpVars, engVars>>

NextSemanticConc ==
  \/ \E c \in Callers : ProcessCall(c, SemConcInfos, MaxConcProcessed)
  \/ \E c \in Callers : ProcessRelate(c)
  \/ \E c \in Callers : ProcessCluster(c)

SpecSemanticConc == Init /\ [][NextSemanticConc]_vars

(***************************************************************************)
(* ASMFEngine, initialized: processInformation and retrieveInformation,    *)
(* each run without interruption.                                          *)
(***************************************************************************)
EState == [memories |-> memories, S |-> SState, T |-> TState]

SetE(E) ==
  /\ memories' = E.memories
  /\ SetS(E.S)
  /\ SetT(E.T)

\* the number of calls so far
NumCalls == metrics.totalMemories

\* processInformation or retrieveInformation throws before it has changed a
\* layer or the cache: the catch block counts the call
CallThrows(name, op, error) ==
  /\ reply' = [op |-> op, success |-> FALSE, error |-> error]
  /\ metrics' = updatePerformanceMetrics(metrics, FALSE, FALSE)
  /\ semHistory' = [semHistory EXCEPT !.failed = TRUE]
  /\ lastOp' = Op(name)
  /\ UNCHANGED <<now, appVars, ctxVars, tmpVars, concepts, relationships, clusters, cache, storage,
                 initialized, callVars>>

\* the call of an engine not initialized
NotInitialized_addsMemory(name, op) ==
  /\ memories' = Append(memories, NewMemory(memCount + 1, extractSemanticInfo(<<>>, now),
                                            "none", now))
  /\ reply' = [op |-> op, success |-> FALSE, error |-> "ASMF engine not initialized"]
  /\ lastOp' = Op(name)
  /\ UNCHANGED <<now, appVars, memCount, tmpVars, semVars, cache, metrics, storage, initialized,
                 callVars>>

NotInitialized(name, op) == CallThrows(name, op, "ASMF engine not initialized")

\* extractSemanticInfo of an input that is no string: input.toLowerCase
\* throws a TypeError
ExtractionFailed_clearsCache(name, op) ==
  /\ cache' = <<>>
  /\ reply' = [op |-> op, success |-> FALSE, error |-> "input.toLowerCase is not a function"]
  /\ lastOp' = Op(name)
  /\ UNCHANGED <<now, appVars, ctxVars, tmpVars, semVars, metrics, storage, initialized, callVars>>

ExtractionFailed(name, op) == CallThrows(name, op, "input.toLowerCase is not a function")

\* the layersUpdated of what processInformation returns
layersUpdated == <<"context", "semantic", "temporal">>

\* processInformation.  saveOk: the write of saveMemory succeeds.
Ingest(input, metadata, saveOk) ==
  LET info == extractSemanticInfo(input, now)
      added == Ctx_addMemory(memories, info, metadata, memCount + 1, now)
      r == SL_processInput(SState, info, now)
      fanned == [memories |-> added, S |-> r.S,
                 T |-> TL_recordEvent(TState, info, metadata, now)]
      needs == NeedsConsolidation(fanned)
      consolidated == consolidateLayers(fanned, now)
  IN  IF ~initialized THEN NotInitialized("eng.ingest", "ingest")
      ELSE IF ~IsString(input) THEN ExtractionFailed("eng.ingest", "ingest") ELSE
      /\ memCount' = memCount + 1
      /\ IF r.threw
           THEN /\ SetE([memories |-> added, S |-> r.S, T |-> TState])
                /\ semHistory' = [Logged(info, now) EXCEPT !.failed = TRUE]
                /\ metrics' = updatePerformanceMetrics(metrics, FALSE, FALSE)
                /\ reply' = [op |-> "ingest", success |-> FALSE,
                             error |-> "Cannot read properties of undefined"]
                /\ UNCHANGED storage
         ELSE IF ~needs
           THEN /\ SetE(fanned)
                /\ semHistory' = Logged(info, now)
                /\ metrics' = updatePerformanceMetrics(metrics, TRUE, FALSE)
                /\ reply' = [op |-> "ingest", success |-> TRUE, error |-> "",
                             layersUpdated |-> layersUpdated]
                /\ UNCHANGED storage
         ELSE /\ SetE(consolidated)
              /\ semHistory' = [Logged(info, now) EXCEPT !.consolidated = TRUE,
                                                         !.failed = @ \/ ~saveOk]
              /\ metrics' = updatePerformanceMetrics(metrics, saveOk, FALSE)
              /\ reply' = IF saveOk
                            THEN [op |-> "ingest", success |-> TRUE, error |-> "",
                                  layersUpdated |-> layersUpdated]
                            ELSE [op |-> "ingest", success |-> FALSE,
                                  error |-> "writeFile failed"]
              /\ IF saveOk
                   THEN storage' = <<serializeData(MemoryState(consolidated, metrics, now))>>
                   ELSE UNCHANGED storage
      /\ lastOp' = Op("eng.ingest")
      /\ UNCHANGED <<now, appVars, cache, initialized, callVars>>

\* retrieveInformation
Retrieve(query, options) ==
  LET cacheKey == generateCacheKey(query, options, now)
      hit == CacheIndex(cache, cacheKey)
      response == Response(query, options, memories, SState, TState, now)
  IN  IF ~initialized THEN NotInitialized("eng.retrieve", "retrieve")
      ELSE IF hit = 0 /\ ~IsString(query)
        THEN ExtractionFailed("eng.retrieve", "retrieve") ELSE
      /\ IF hit # 0
           THEN /\ reply' = [op |-> "retrieve", success |-> TRUE, error |-> "",
                             options |-> options,
                             cached |-> TRUE, response |-> cache[hit].response]
                /\ metrics' = updatePerformanceMetrics(metrics, TRUE, TRUE)
                /\ UNCHANGED cache
           ELSE /\ reply' = [op |-> "retrieve", success |-> TRUE, error |-> "",
                             options |-> options,
                             cached |-> FALSE, response |-> response]
                /\ metrics' = updatePerformanceMetrics(metrics, TRUE, FALSE)
                /\ cache' = IF response.totalResults > 0
                              THEN cleanupCache(Append(cache, [key |-> cacheKey,
                                                               response |-> response]))
                              ELSE cache
      /\ lastOp' = Op("eng.retrieve")
      /\ UNCHANGED <<now, appVars, ctxVars, tmpVars, semVars, storage, initialized, callVars>>

\* retrieveInformation in which the search of one layer rejects: the three
\* searches are awaited one after the other inside the try block, and the
\* catch block counts the call and throws the error on.  The searches are
\* reached by an initialized engine, for a query that is a string and is
\* not answered from the cache.
RetrieveSearchFails(query, options, layer) ==
  /\ initialized
  /\ IsString(query)
  /\ CacheIndex(cache, generateCacheKey(query, options, now)) = 0
  /\ CallThrows("eng.retrieve.search", "retrieve", layer)

\* consolidateMemory, called by itself.  saveOk: the write of saveMemory
\* succeeds.
ConsolidateMemory(saveOk) ==
  LET consolidated == consolidateLayers(EState, now)
  IN  /\ SetE(consolidated)
      /\ semHistory' = [semHistory EXCEPT !.consolidated = TRUE]
      /\ storage' = IF saveOk
                      THEN <<serializeData(MemoryState(consolidated, metrics, now))>>
                      ELSE storage
      /\ lastOp' = OpAgain(IF saveOk THEN "eng.consolidate" ELSE "eng.consolidate.throw")
      /\ UNCHANGED <<now, appVars, memCount, cache, metrics, reply, initialized, callVars>>

\* loadMemory: the layers and the metrics after it.  The state read is
\* imported layer by layer; what importState throws is caught, and the
\* layers imported before it stay imported.
loadMemory(E, m, file) ==
  LET state == deserializeData(file[1])
      r == SL_importState(E.S, state.semanticLayer)
  IN  IF file = <<>> THEN [E |-> E, metrics |-> m]
      ELSE IF r.threw
        THEN [E |-> [E EXCEPT !.memories = Ctx_importState(@, state.contextLayer)],
              metrics |-> m]
      ELSE [E |-> [memories |-> Ctx_importState(E.memories, state.contextLayer),
                   S |-> r.S,
                   T |-> TL_importState(E.T, state.temporalLayer)],
            metrics |-> state.performanceMetrics]

\* initialize.  dirOk: storage.initialize makes its directories (it throws
\* if not, and so does initialize); readOk: the file, if there is one, can
\* be read (loadState gives null if not).
Initialize(dirOk, readOk) ==
  LET loaded == loadMemory(EState, metrics, IF readOk THEN storage ELSE <<>>)
  IN  /\ IF dirOk
           THEN /\ SetE(loaded.E)
                /\ metrics' = loaded.metrics
                /\ initialized' = TRUE
                /\ lastOp' = Op("eng.initialize")
           ELSE /\ lastOp' = Op("eng.initialize.throw")
                /\ UNCHANGED <<memories, tmpVars, concepts, relationships, clusters,
                               metrics, initialized>>
      /\ UNCHANGED <<now, appVars, memCount, semHistory, cache, storage, reply, callVars>>

\* the constructor, of a process started again: the layers, the cache and
\* the metrics are new, the file of the storage is as it was left
Construct ==
  /\ SetE([memories |-> <<>>, S |-> EmptySemantic,
           T |-> [events |-> <<>>, objs |-> <<>>, timelines |-> <<>>, patterns |-> <<>>]])
  /\ cache' = <<>>
  /\ metrics' = [totalMemories |-> 0, hitRate |-> Frac(0, 1)]
  /\ initialized' = FALSE
  /\ lastOp' = Op("eng.construct")
  /\ UNCHANGED <<now, appVars, memCount, semHistory, storage, reply, callVars>>

EngineInitialize ==
  /\ ~initialized
  /\ \E dirOk \in BOOLEAN, readOk \in BOOLEAN : Initialize(dirOk, readOk)

EngineIngest ==
  \E input \in EngineTexts, saveOk \in BOOLEAN :
    /\ NumCalls < MaxCalls
    /\ Ingest(input, "none", saveOk)

EngineRetrieve ==
  \E query \in EngineTexts, options \in Options :
    /\ NumCalls < MaxCalls
    /\ Retrieve(query, options)

EngineTick ==
  /\ Tick(HOUR, MaxEngineHours * HOUR)
  /\ UNCHANGED <<ctxVars, tmpVars, semVars, engVars, callVars>>

(***************************************************************************)
(* ASMFEngine: calls before and after initialize, with inputs that are     *)
(* strings and inputs that are not.                                        *)
(***************************************************************************)
StartInputs == {TextData, TextMemory, NullInput}

StartIngest ==
  \E input \in StartInputs :
    /\ NumCalls < MaxStartCalls
    /\ Ingest(input, "none", TRUE)

StartRetrieve ==
  \E query \in StartInputs :
    /\ NumCalls < MaxStartCalls
    /\ Retrieve(query, 0)

NextEngineStart == EngineInitialize \/ StartIngest \/ StartRetrieve

SpecEngineStart == Init /\ [][NextEngineStart]_vars

(***************************************************************************)
(* ASMFEngine: the periodic backup that startBackgroundProcesses sets up,  *)
(* between the calls.                                                      *)
(***************************************************************************)
\* one run of the backup interval: saveMemory, its error caught and logged.
\* saveOk: the write succeeds.
BackgroundBackup(saveOk) ==
  /\ initialized
  /\ storage' = IF saveOk THEN <<serializeData(MemoryState(EState, metrics, now))>>
                          ELSE storage
  /\ lastOp' = OpAgain(IF saveOk THEN "eng.backup" ELSE "eng.backup.fail")
  /\ UNCHANGED <<now, appVars, ctxVars, tmpVars, semVars, cache, metrics, reply, initialized,
                 callVars>>

BackupRun == \E saveOk \in BOOLEAN : BackgroundBackup(saveOk)

BackupIngest ==
  \E input \in EngineTexts, saveOk \in BOOLEAN :
    /\ NumCalls < MaxBackupCalls
    /\ Ingest(input, "none", saveOk)

BackupRetrieve ==
  \E query \in EngineTexts :
    /\ NumCalls < MaxBackupCalls
    /\ Retrieve(query, 0)

NextEngineBackup == EngineInitialize \/ BackupIngest \/ BackupRetrieve \/ BackupRun

SpecEngineBackup == Init /\ [][NextEngineBackup]_vars

(***************************************************************************)
(* ASMFEngine: checkConsolidation as a function of the sizes it reads and  *)
(* of the capacities of the configuration.                                 *)
(***************************************************************************)
\* the capacities a configuration gives a layer
CheckCapacities == (MaxCheckCapacity - 1)..MaxCheckCapacity

CheckConsolidation ==
  \E capacities \in [{"context", "semantic", "temporal"} -> CheckCapacities] :
    \E sizes \in [{"context", "semantic", "temporal"} -> 0..MaxCheckCapacity] :
      /\ \A layer \in DOMAIN sizes : sizes[layer] <= capacities[layer]
      /\ reply' = [op |-> "checkConsolidation", success |-> TRUE, error |-> "",
                   sizes |-> sizes, capacities |-> capacities,
                   needsConsolidation |-> needsConsolidation(sizes, capacities)]
      /\ lastOp' = Op("eng.check")
      /\ UNCHANGED <<now, appVars, ctxVars, tmpVars, semVars, cache, metrics, storage, initialized,
                     callVars>>

NextCheck == CheckConsolidation

SpecCheck == Init /\ [][NextCheck]_vars

(***************************************************************************)
(* ASMFEngine: retrieveInformation and its cache, with a clock that moves  *)
(* inside the five minutes of a cache key and past them.                   *)
(***************************************************************************)
CacheIngest ==
  /\ NumCalls < MaxCacheCalls
  /\ Ingest(TextData, "none", TRUE)

CacheRetrieve ==
  \E query \in {TextData, TextMemory}, options \in Options :
    /\ NumCalls < MaxCacheCalls
    /\ Retrieve(query, options)

CacheTick ==
  /\ Tick(3 * MINUTE, MaxCacheTicks * 3 * MINUTE)
  /\ UNCHANGED <<ctxVars, tmpVars, semVars, engVars, callVars>>

NextEngineCache == EngineInitialize \/ CacheIngest \/ CacheRetrieve \/ CacheTick

SpecEngineCache == Init /\ [][NextEngineCache]_vars

(***************************************************************************)
(* ASMFEngine: processInformation step by step.  It awaits the extraction  *)
(* and then the write of each layer; at each await the processInformation  *)
(* of another caller may run.                                              *)
(***************************************************************************)
InProgressCalls == Cardinality({c \in Callers : pc[c] # "idle"})

\* to the await of extractSemanticInfo
IngestCall(c) ==
  \E input \in {TextData, TextMemory} :
    /\ pc[c] = "idle"
    /\ initialized
    /\ NumCalls + InProgressCalls < MaxStepCalls
    /\ frame' = [frame EXCEPT ![c].info = extractSemanticInfo(input, now),
                              ![c].written = <<"extraction">>]
    /\ pc' = [pc EXCEPT ![c] = "ing.context"]
    /\ UNCHANGED <<now, appVars, lastOp, ctxVars, tmpVars, semVars, engVars>>

\* await contextLayer.addMemory
IngestContext(c) ==
  /\ pc[c] = "ing.context"
  /\ memories' = Ctx_addMemory(memories, frame[c].info, "none", memCount + 1, now)
  /\ memCount' = memCount + 1
  /\ frame' = [frame EXCEPT ![c].written = Append(@, "context")]
  /\ pc' = [pc EXCEPT ![c] = "ing.semantic"]
  /\ UNCHANGED <<now, appVars, lastOp, tmpVars, semVars, engVars>>

\* await semanticLayer.processInput; what it throws ends the call
IngestSemantic(c) ==
  /\ pc[c] = "ing.semantic"
  /\ LET r == SL_processInput(SState, frame[c].info, now)
     IN  /\ SetS(r.S)
         /\ IF r.threw
              THEN /\ semHistory' = [Logged(frame[c].info, now) EXCEPT !.failed = TRUE]
                   /\ metrics' = updatePerformanceMetrics(metrics, FALSE, FALSE)
                   /\ reply' = [op |-> "ingest", success |-> FALSE,
                                error |-> "Cannot read properties of undefined"]
                   /\ lastOp' = Op("eng.ingest")
                   /\ frame' = [frame EXCEPT ![c] = IdleFrame]
                   /\ pc' = [pc EXCEPT ![c] = "idle"]
              ELSE /\ semHistory' = Logged(frame[c].info, now)
                   /\ frame' = [frame EXCEPT ![c].written = Append(@, "semantic")]
                   /\ pc' = [pc EXCEPT ![c] = "ing.temporal"]
                   /\ UNCHANGED <<metrics, reply, lastOp>>
  /\ UNCHANGED <<now, appVars, ctxVars, tmpVars, cache, storage, initialized>>

\* await temporalLayer.recordEvent
IngestTemporal_early(c) ==
  /\ pc[c] = "ing.semantic"
  /\ SetT(TL_recordEvent(TState, frame[c].info, "none", now))
  /\ frame' = [frame EXCEPT ![c].written = Append(@, "temporal")]
  /\ pc' = [pc EXCEPT ![c] = "ing.check"]
  /\ UNCHANGED <<now, appVars, lastOp, ctxVars, semVars, engVars>>

IngestTemporal(c) ==
  /\ pc[c] = "ing.temporal"
  /\ SetT(TL_recordEvent(TState, frame[c].info, "none", now))
  /\ frame' = [frame EXCEPT ![c].written = Append(@, "temporal")]
  /\ pc' = [pc EXCEPT ![c] = "ing.check"]
  /\ UNCHANGED <<now, appVars, lastOp, ctxVars, semVars, engVars>>

\* await checkConsolidation, the metrics, the return
IngestReturn(c) ==
  /\ pc[c] = "ing.check"
  /\ IF NeedsConsolidation(EState)
       THEN /\ SetE(consolidateLayers(EState, now))
            /\ semHistory' = [semHistory EXCEPT !.consolidated = TRUE]
            /\ storage' = <<serializeData(MemoryState(consolidateLayers(EState, now),
                                                      metrics, now))>>
       ELSE UNCHANGED <<memories, tmpVars, semVars, storage>>
  /\ metrics' = updatePerformanceMetrics(metrics, TRUE, FALSE)
  /\ reply' = [op |-> "ingest", success |-> TRUE, error |-> "",
               layersUpdated |-> layersUpdated]
  /\ lastOp' = Op("eng.ingest")
  /\ frame' = [frame EXCEPT ![c] = IdleFrame]
  /\ pc' = [pc EXCEPT ![c] = "idle"]
  /\ UNCHANGED <<now, appVars, memCount, cache, initialized>>

NextEngineSteps ==
  \/ EngineInitialize
  \/ \E c \in Callers : \/ IngestCall(c)
                         \/ IngestContext(c)
                         \/ IngestSemantic(c)
                         \/ IngestTemporal(c)
                         \/ IngestReturn(c)

SpecEngineSteps == Init /\ [][NextEngineSteps]_vars

(***************************************************************************)
(* ASMFEngine: calls in which a layer fails.  The texts bring more         *)
(* concepts than the semantic layer holds; a search rejects when the       *)
(* caller of the action says so.                                           *)
(***************************************************************************)
Layers == {"context", "semantic", "temporal"}

FaultTexts == {TextMemoryData, TextComputerLearning}

FaultIngest ==
  \E input \in FaultTexts, saveOk \in BOOLEAN :
    /\ NumCalls < MaxFaultCalls
    /\ Ingest(input, "none", saveOk)

FaultRetrieve ==
  \E query \in FaultTexts, layer \in Layers :
    /\ NumCalls < MaxFaultCalls
    /\ RetrieveSearchFails(query, 0, layer)

NextEngineFault == EngineInitialize \/ FaultIngest \/ FaultRetrieve

SpecEngineFault == Init /\ [][NextEngineFault]_vars

(***************************************************************************)
(* ASMFEngine: processInformation and consolidateMemory over more than the *)
(* time window.                                                            *)
(***************************************************************************)
PassIngest ==
  \E input \in {TextData, TextAiData}, saveOk \in BOOLEAN :
    /\ NumCalls < MaxPassCalls
    /\ Ingest(input, "none", saveOk)

PassConsolidate == \E saveOk \in BOOLEAN : ConsolidateMemory(saveOk)

PassTick ==
  /\ Tick(MONTH + MINUTE, MaxPassMonths * (MONTH + MINUTE))
  /\ UNCHANGED <<ctxVars, tmpVars, semVars, engVars, callVars>>

NextEnginePass == EngineInitialize \/ PassIngest \/ PassConsolidate \/ PassTick

SpecEnginePass == Init /\ [][NextEnginePass]_vars

(***************************************************************************)
(* The layers, exported, written and read as JSON, and imported into a new *)
(* layer that takes the place of the old one.                              *)
(***************************************************************************)
EmptyTemporal == [events |-> <<>>, objs |-> <<>>, timelines |-> <<>>, patterns |-> <<>>]

Restored == deserializeData(serializeData(MemoryState(EState, metrics, now)))

ContextRoundTrip ==
  /\ memories' = Ctx_importState(<<>>, Restored.contextLayer)
  /\ lastOp' = Op("ctx.roundtrip")
  /\ UNCHANGED <<now, appVars, memCount, tmpVars, semVars, engVars, callVars>>

SemanticRoundTrip ==
  LET r == SL_importState(EmptySemantic, Restored.semanticLayer)
  IN  /\ SetS(r.S)
      /\ lastOp' = Op(IF r.threw THEN "sem.roundtrip.throw" ELSE "sem.roundtrip")
      /\ UNCHANGED <<now, appVars, semHistory, ctxVars, tmpVars, engVars, callVars>>

TemporalRoundTrip ==
  /\ Len(eventObjs) <= MaxRoundTripObjects
  /\ SetT(TL_importState(EmptyTemporal, Restored.temporalLayer))
  /\ lastOp' = Op("tmp.roundtrip")
  /\ UNCHANGED <<now, appVars, ctxVars, semVars, engVars, callVars>>

RoundTripIngest ==
  \E input \in EngineTexts :
    /\ NumCalls < MaxRoundTripCalls
    /\ Ingest(input, "none", TRUE)

RoundTripTick ==
  /\ Tick(HOUR, MaxRoundTripHours * HOUR)
  /\ UNCHANGED <<ctxVars, tmpVars, semVars, engVars, callVars>>

NextRoundTrip ==
  \/ EngineInitialize
  \/ RoundTripIngest
  \/ ContextRoundTrip
  \/ SemanticRoundTrip
  \/ TemporalRoundTrip
  \/ RoundTripTick

SpecRoundTrip == Init /\ [][NextRoundTrip]_vars

NextEngine == EngineInitialize \/ EngineIngest \/ EngineRetrieve \/ EngineTick

SpecEngine == Init /\ [][NextEngine]_vars

(***************************************************************************)
(* C1.  After every sequence of addMemory calls the Context index holds at *)
(* most maxSize observations, and they are the most recently added ones,   *)
(* in the order they were added: each overflow evicted the oldest          *)
(* observation not yet evicted.                                            *)
(***************************************************************************)
C1_FifoBounded ==
  /\ Len(memories) <= ContextMaxSize
  /\ Len(memories) = Min(memCount, ContextMaxSize)
  /\ \A i \in DOMAIN memories : memories[i].id = memCount - Len(memories) + i

\* Three observations were added to an index of capacity ContextMaxSize, so
\* that the first one has been evicted.
C1_Witness ==
  /\ lastOp.op = "ctx.add"
  /\ memCount = ContextMaxSize + 1
  /\ Len(memories) = ContextMaxSize
  /\ memories[1].id = 2

(***************************************************************************)
(* The events 1..n recorded so far, for the claims on recurring patterns.  *)
(***************************************************************************)
MutuallySimilar(ids) ==
  \A i \in ids, j \in ids :
    i # j => Exceeds(ContentSimilarity(eventObjs[i].concepts, eventObjs[j].concepts), 3, 10)

ArrivalIntervals(n) == Intervals([i \in 1..n |-> eventObjs[i].timestamp])

\* the coefficient of variation of the intervals is greater than 0.2
VariationAbove20(intervals) ==
  LET xs == Reduced(intervals)
      S == SumSeq(xs)
  IN  S > 0 /\ 25 * ScaledVariance(xs) > S * S

(***************************************************************************)
(* C9.  No recurring pattern is recorded by a recordEvent when the events  *)
(* recorded up to it are similar to each other and their inter-arrival     *)
(* intervals have a coefficient of variation greater than 0.2.             *)
(***************************************************************************)
C9_NoRecurringWhenIrregular ==
  \A k \in DOMAIN patterns :
    patterns[k].type = "recurring" =>
      ~ ( /\ MutuallySimilar(1..patterns[k].baseEvent)
          /\ VariationAbove20(ArrivalIntervals(patterns[k].baseEvent)) )

(***************************************************************************)
(* C10.  When five events similar to each other have been recorded into an *)
(* empty index at intervals of exactly one hour (3600000 ms), the fifth    *)
(* recordEvent records a recurring pattern for it, with an average         *)
(* interval of one hour and a coefficient of variation 0 (confidence 1).   *)
(***************************************************************************)
FiveHourly ==
  /\ lastOp.op = "tmp.record"
  /\ Len(eventObjs) = 5
  /\ MutuallySimilar(1..5)
  /\ \A i \in 1..4 : eventObjs[i + 1].timestamp - eventObjs[i].timestamp = HOUR

EventView ==
  [i \in DOMAIN events |->
     [id |-> events[i],
      concepts |-> eventObjs[events[i]].concepts,
      originalCount |-> eventObjs[events[i]].originalCount]]

C5_TemporalConsolidateIdempotent ==
  [][ (lastOp.op = "tmp.consolidate" /\ lastOp'.op = "tmp.consolidate")
        => EventView' = EventView ]_vars

(***************************************************************************)
(* C3.  When a consolidation pass (consolidateMemory) returns, every event  *)
(* whose recordEvent has returned (before the pass was called or while it  *)
(* was in progress) and whose timestamp is within the time window is in    *)
(* the event list of the Temporal index.  (Stated for the runs that record *)
(* no more than maxEvents events, so that no event has been evicted for    *)
(* capacity.)                                                              *)
(***************************************************************************)
InProgress == {frame[c].event : c \in Callers}

C3_ConsolidateKeepsRecorded ==
  (lastOp.op = "eng.consolidate" /\ NumRecorded <= TemporalMaxEvents) =>
    \A id \in DOMAIN eventObjs :
      ( /\ ~eventObjs[id].compressed
        /\ id \notin InProgress
        /\ eventObjs[id].timestamp > now - TemporalTimeWindow )
      => id \in SeqToSet(events)

(***************************************************************************)
(* C4.  While a processInput call is between its steps (the concepts       *)
(* registered, the relationships not yet counted or the clustering not yet *)
(* done), the Concept Graph is as the call's last step left it: no step of *)
(* another call's update has been applied in between.                      *)
(***************************************************************************)
C4_UpdateAtomic ==
  \A c \in Callers :
    pc[c] \in {"sem.relate", "sem.cluster"} => SState = frame[c].left

(***************************************************************************)
(* C6.  A second consolidate of the Context index, called right after a    *)
(* first one with nothing in between, leaves the observations as they      *)
(* were; a second consolidate of the Concept Graph leaves the concepts     *)
(* (with their adjacency sets) and the relationships as they were.         *)
(***************************************************************************)
C6_ConsolidateIdempotent ==
  [][ /\ (lastOp.op = "ctx.consolidate" /\ lastOp'.op = "ctx.consolidate")
           => memories' = memories
      /\ (lastOp.op = "sem.consolidate" /\ lastOp'.op = "sem.consolidate")
           => (concepts' = concepts /\ relationships' = relationships) ]_vars

\* Both consolidate calls were repeated; the Concept Graph one just now,
\* after the first of the two had removed a concept and its relationship
\* and kept others, and the Context one with an observation removed.
C6_Witness ==
  /\ lastOp.op = "sem.consolidate"
  /\ lastOp.again
  /\ lastOp.repeated = {"ctx.consolidate", "sem.consolidate"}
  /\ Len(memories) = 1
  /\ memCount = 2
  /\ Len(concepts) = 2
  /\ NumProcessed = 3
  /\ relationships # <<>>

(***************************************************************************)
(* What the Concept Graph was given so far.                                *)
(***************************************************************************)
SemNames == UNION {SeqToSet(info.concepts) : info \in SemInfos}

\* the number of processInput calls whose concepts include all of these
Ingestions(names) ==
  Cardinality({k \in DOMAIN semHistory.log : names \subseteq SeqToSet(semHistory.log[k])})

(***************************************************************************)
(* C7.  After any sequence of processInput calls (no concept removed), the *)
(* weight of the relationship between two concepts A and B is the number   *)
(* of calls whose concepts include both, and it is the same looked up      *)
(* under the key of (A, B) and under the key of (B, A).                    *)
(***************************************************************************)
C7_WeightIsCoOccurrence ==
  (~semHistory.consolidated /\ ~semHistory.evicted) =>
    \A A \in SemNames, B \in SemNames :
      A # B =>
        /\ Weight(relationships, <<A, B>>) = Ingestions({A, B})
        /\ Weight(relationships, <<A, B>>) = Weight(relationships, <<B, A>>)

(***************************************************************************)
(* C8.  After any sequence of processInput calls with no consolidate and   *)
(* no removal by cleanupOldConcepts in between, the frequency of each      *)
(* concept is the number of calls whose concepts include it.               *)
(***************************************************************************)
FrequencyIsIngestions ==
  \A i \in DOMAIN concepts : concepts[i].frequency = Ingestions({concepts[i].name})

C8_FrequencyCountsIngestions ==
  (~semHistory.consolidated /\ ~semHistory.evicted) => FrequencyIsIngestions

\* C8 as the claim has it: whenever no consolidate was called.
C8_Original == ~semHistory.consolidated => FrequencyIsIngestions

\* Three inputs were processed, two of them with the same concepts.
C8_Witness ==
  /\ lastOp.op = "sem.process"
  /\ ~semHistory.consolidated
  /\ ~semHistory.evicted
  /\ NumProcessed = 3
  /\ \E i \in DOMAIN concepts : concepts[i].frequency = 2

(***************************************************************************)
(* C2.  The response a retrieveInformation call returns is the one the     *)
(* three searches give on the layers as they are when it returns: the      *)
(* effects of every processInformation that returned before it are in it.  *)
(* (Stated for the runs in which no processInformation has thrown.)        *)
(***************************************************************************)
C2_RetrieveSeesIngests ==
  (lastOp.op = "eng.retrieve" /\ ~semHistory.failed) =>
    reply.response = Response(reply.response.query, reply.options,
                              memories, SState, TState, now)

(***************************************************************************)
(* C11.  A consolidate of the Temporal index whose n events are all older  *)
(* than the time window leaves ceil(n / b) events, b the batch size, and   *)
(* the originalCount of the compressed events it made, with 1 for each     *)
(* event of a batch of one that it passed on, sum to n.                    *)
(***************************************************************************)
AllOlder ==
  \A i \in DOMAIN events : eventObjs[events[i]].timestamp < now - TemporalTimeWindow

CeilDiv(n, b) == (n + b - 1) \div b

\* the counts of the events of list evs, those of made counting as
\* originalCount says and the others as 1
OriginalCounts(evs, objs, made) ==
  SumSeq([i \in DOMAIN evs |-> IF evs[i] \in made THEN objs[evs[i]].originalCount ELSE 1])

C11_CompressionCounts ==
  [][ (lastOp'.op = "tmp.consolidate" /\ AllOlder)
        => /\ Len(events') = CeilDiv(Len(events), BatchSize)
           /\ OriginalCounts(events', eventObjs', DOMAIN eventObjs' \ DOMAIN eventObjs)
                = Len(events) ]_vars

C11_Witness ==
  /\ lastOp.op = "tmp.consolidate"
  /\ ~lastOp.again
  /\ AllOlder
  /\ Len(events) = 2
  /\ eventObjs[events[1]].compressed
  /\ eventObjs[events[1]].originalCount = BatchSize
  /\ ~eventObjs[events[2]].compressed
  /\ Len(eventObjs) = 4

(***************************************************************************)
(* C12.  A consolidation (consolidateMemory of the engine, consolidate of  *)
(* the Temporal index) leaves every event of the event list whose          *)
(* timestamp is within the time window in the event list, and as it was.   *)
(***************************************************************************)
WithinWindow(e) == eventObjs[e].timestamp > now - TemporalTimeWindow

C12_ConsolidateKeepsRecent ==
  [][ lastOp'.op \in {"eng.consolidate", "tmp.consolidate"}
        => \A e \in SeqToSet(events) :
             WithinWindow(e) => (e \in SeqToSet(events') /\ eventObjs'[e] = eventObjs[e]) ]_vars

(***************************************************************************)
(* C13.  A layer restored from what it exported (written and read as JSON) *)
(* answers every query of the query set as the layer it was exported from: *)
(* the search of the Context, of the Semantic and of the Temporal layer    *)
(* give the same results before and after the round trip.                  *)
(***************************************************************************)
QuerySet == {extractSemanticInfo(text, now) : text \in EngineTexts}

SameResults(q, mems, S, T) ==
  /\ Ctx_search(mems, q) = Ctx_search(memories, q)
  /\ \A o \in Options :
       SL_search(S, q, SimilarityThreshold(o)) = SL_search(SState, q, SimilarityThreshold(o))
  /\ TL_search(T, q, now) = TL_search(TState, q, now)

Shares(list, queryInfo) == SeqToSet(list) \cap SeqToSet(queryInfo.concepts) # {}

\* the result comes of the k-th observation
DerivedFrom(result, k) ==
  IF result.layer = "semantic"
    THEN result.name \in SeqToSet(semHistory.log[k])
    ELSE result.id = k

\* three observations, the third sharing nothing with the query, and then
\* a retrieval that searched the layers
TwoOfThreeShared ==
  /\ lastOp.op = "eng.retrieve"
  /\ ~semHistory.failed
  /\ ~reply.cached
  /\ NumProcessed = 3
  /\ memCount = 3
  /\ Len(eventObjs) = 3
  /\ LET queryInfo == extractSemanticInfo(reply.response.query, now)
     IN  /\ Shares(semHistory.log[1], queryInfo)
         /\ Shares(semHistory.log[2], queryInfo)
         /\ ~Shares(semHistory.log[3], queryInfo)

C14_SharedRankFirst ==
  TwoOfThreeShared =>
    LET results == reply.response.results
    IN  \A i \in DOMAIN results, j \in DOMAIN results :
          ( /\ DerivedFrom(results[i], 3)
            /\ DerivedFrom(results[j], 1) \/ DerivedFrom(results[j], 2) )
          => j < i

(***************************************************************************)
(* C15.  No processInput of the SemanticLayer, the semantic write of an    *)
(* ingestion, throws: a concept map over maxConcepts is cleaned up and the *)
(* call returns.                                                           *)
(***************************************************************************)
C15_CapacityNeverThrows == lastOp.op # "sem.process.throw"

(***************************************************************************)
(* C16.  A processInformation or retrieveInformation call in which the     *)
(* feature extraction throws fails, and leaves the memories, the concept   *)
(* graph, the events, timelines and patterns, and the response cache as    *)
(* they were.                                                              *)
(***************************************************************************)
ExtractionError == "input.toLowerCase is not a function"

LayersAndCacheUnchanged ==
  UNCHANGED <<memories, concepts, relationships, clusters, events, eventObjs, timelines,
              patterns, cache>>

C16_ExtractionFailureAborts ==
  [][ (lastOp'.op \in {"eng.ingest", "eng.retrieve"} /\ reply'.error = ExtractionError)
        => (~reply'.success /\ LayersAndCacheUnchanged) ]_vars

C16_Witness ==
  /\ lastOp.op = "eng.ingest"
  /\ reply.error = ExtractionError
  /\ ~reply.success
  /\ Len(memories) = 1
  /\ Len(events) = 1
  /\ concepts # <<>>
  /\ Len(cache) = 1

(***************************************************************************)
(* C19.  A processInformation or retrieveInformation call on an engine     *)
(* whose initialize has not completed fails with the error "ASMF engine    *)
(* not initialized" and leaves the layers and the response cache as they   *)
(* were.                                                                   *)
(***************************************************************************)
C19_NotInitializedFails ==
  [][ (~initialized /\ lastOp'.op \in {"eng.ingest", "eng.retrieve"})
        => /\ ~reply'.success
           /\ reply'.error = "ASMF engine not initialized"
           /\ LayersAndCacheUnchanged ]_vars

C19_Witness ==
  /\ ~initialized
  /\ lastOp.op = "eng.retrieve"
  /\ reply.error = "ASMF engine not initialized"
  /\ lastOp.repeated = {}
  /\ metrics.totalMemories = 2
  /\ memories = <<>>
  /\ cache = <<>>

(***************************************************************************)
(* C17.  A retrieveInformation in which the search of one layer fails      *)
(* still succeeds, and its response holds no result of that layer.         *)
(***************************************************************************)
C17_SearchFailureIsolated ==
  lastOp.op = "eng.retrieve.search"
    => /\ reply.success
       /\ reply.response.layers[reply.error] = <<>>

(***************************************************************************)
(* C18.  A processInformation in which the write of one layer fails after  *)
(* the write of an earlier layer was done reports a partial success, and   *)
(* names the layers it has updated and no other.                           *)
(***************************************************************************)
SemanticWriteFailed ==
  /\ lastOp.op = "eng.ingest"
  /\ reply.error = "Cannot read properties of undefined"

C18_PartialFanOutReported ==
  SemanticWriteFailed
    => /\ reply.success
       /\ SeqToSet(reply.layersUpdated) = {"context", "semantic"}

(***************************************************************************)
(* C20.  No processInformation writes the snapshot of the memory state:    *)
(* the saved state is after the call what it was before it.                *)
(***************************************************************************)
C20_IngestWritesNoSnapshot ==
  [][ lastOp'.op = "eng.ingest" => storage' = storage ]_vars

(***************************************************************************)
(* C21.  After a run of the backup whose write failed, the engine goes on  *)
(* in memory: the processInformation or retrieveInformation that comes     *)
(* next succeeds.                                                          *)
(***************************************************************************)
C21_CallsSucceedAfterFailedSave ==
  [][ (lastOp.op = "eng.backup.fail" /\ lastOp'.op \in {"eng.ingest", "eng.retrieve"})
        => reply'.success ]_vars

(***************************************************************************)
(* C22.  checkConsolidation, which processInformation awaits after its     *)
(* three writes, triggers the consolidation exactly when some layer holds  *)
(* 80% of its capacity or more.                                            *)
(***************************************************************************)
AtEightyPercent(sizes, capacities) ==
  \E layer \in DOMAIN sizes : 10 * sizes[layer] >= 8 * capacities[layer]

C22_TriggerAtEightyPercent ==
  lastOp.op = "eng.check"
    => (reply.needsConsolidation <=> AtEightyPercent(reply.sizes, reply.capacities))

(***************************************************************************)
(* C23.  retrieveInformation looks in the cache under the key of (query,   *)
(* options, five-minute bucket of the clock).  A retrieveInformation that  *)
(* finds the key answers with the cached response and leaves the cache as  *)
(* it is; one that does not find it and has at least one result stores its *)
(* response under the key.  (As stated, without "at least one result":     *)
(* C23_Original.)                                                          *)
(***************************************************************************)
RetrievedKey == generateCacheKey(reply'.response.query, reply'.options, now)

Retrieved == lastOp'.op = "eng.retrieve" /\ reply'.success

AnsweredFromCache ==
  /\ reply'.cached
  /\ reply'.response = cache[CacheIndex(cache, RetrievedKey)].response
  /\ cache' = cache

StoredInCache ==
  /\ ~reply'.cached
  /\ CacheIndex(cache', RetrievedKey) # 0
  /\ cache'[CacheIndex(cache', RetrievedKey)].response = reply'.response

TenfoldWeight == [context |-> 10, semantic |-> 8, temporal |-> 6]

\* the places of the ranked list that hold the result r of the layer
PlacesOf(ranked, layer, r) ==
  {i \in DOMAIN ranked :
     /\ ranked[i].layer = layer
     /\ IF layer = "semantic" THEN ranked[i].name = r.name ELSE ranked[i].id = r.id}

RankedOnce(response) ==
  /\ Len(response.results) = Len(response.layers.context) + Len(response.layers.semantic)
                               + Len(response.layers.temporal)
  /\ \A layer \in DOMAIN response.layers :
       \A k \in DOMAIN response.layers[layer] :
         Cardinality(PlacesOf(response.results, layer, response.layers[layer][k])) = 1

RankedFalling(ranked) ==
  \A i, j \in DOMAIN ranked : i < j => ranked[i].relevanceScore >= ranked[j].relevanceScore

RankedByWeight(ranked) ==
  \A i \in DOMAIN ranked :
    /\ ranked[i].relevanceScore >= DAY * TenfoldWeight[ranked[i].layer]
    /\ ranked[i].layer = "semantic"
         => ranked[i].relevanceScore = DAY * TenfoldWeight["semantic"]

C24_RankedList ==
  (lastOp.op = "eng.retrieve" /\ reply.success)
    => /\ RankedOnce(reply.response)
       /\ RankedFalling(reply.response.results)
       /\ RankedByWeight(reply.response.results)

\* A query that was not cached, with results of all three layers and two
\* different scores
C24_Witness ==
  /\ lastOp.op = "eng.retrieve"
  /\ reply.success
  /\ ~reply.cached
  /\ \A layer \in DOMAIN reply.response.layers : reply.response.layers[layer] # <<>>
  /\ Len(reply.response.layers.context) = 2
  /\ reply.response.results[1].relevanceScore
       > reply.response.results[Len(reply.response.results)].relevanceScore

(***************************************************************************)
(* C25.  A processInformation extracts the semantic information once and   *)
(* then writes to the context layer, the semantic layer and the temporal   *)
(* layer in this order, each write after the one before it has completed:  *)
(* what a call in progress has done is a prefix of the order, and a layer  *)
(* is changed, before the call returns, only by a caller that has done     *)
(* exactly what comes before the layer in the order.                       *)
(***************************************************************************)
FanOutOrder == <<"extraction", "context", "semantic", "temporal">>

IsPrefix(s, t) == Len(s) <= Len(t) /\ s = SubSeq(t, 1, Len(s))

\* the caller c does its k-th step of the order, having done the k - 1 before
DoesStep(c, k) ==
  /\ frame[c].written = SubSeq(FanOutOrder, 1, k - 1)
  /\ frame'[c].written = SubSeq(FanOutOrder, 1, k)

Returns == \E c \in Callers : pc[c] # "idle" /\ pc'[c] = "idle"

C25_FanOutInOrder ==
  [][ /\ \A c \in Callers : IsPrefix(frame'[c].written, FanOutOrder)
      /\ (memories' # memories /\ ~Returns) => \E c \in Callers : DoesStep(c, 2)
      /\ (<<concepts, relationships, clusters>>' # <<concepts, relationships, clusters>>
            /\ ~Returns) => \E c \in Callers : DoesStep(c, 3)
      /\ (events' # events /\ ~Returns) => \E c \in Callers : DoesStep(c, 4) ]_vars

\* One caller has done all its writes while the other has written to the
\* context layer only.
C25_Witness ==
  /\ frame["c1"].written = FanOutOrder
  /\ frame["c2"].written = <<"extraction", "context">>
  /\ Len(memories) = 2
  /\ Len(events) = 1
  /\ concepts # <<>>

(***************************************************************************)
(* C26.  A retrieveInformation of an initialized engine for a query that   *)
(* is a string succeeds and leaves the three layers as they are; when no   *)
(* search has a result, its list of results is empty and its total is 0.   *)
(***************************************************************************)
NoLayerResult(response) == \A layer \in DOMAIN response.layers : response.layers[layer] = <<>>

ThresholdInForce(threshold) == IF threshold = Frac(0, 1) THEN Frac(7, 10) ELSE threshold

C27_SearchAtOrAboveThreshold ==
  lastOp.op = "ctx.search"
    => /\ \A i \in DOMAIN reply.results :
            FracAtLeast(reply.results[i].similarity, ThresholdInForce(reply.threshold))
       /\ \A i \in DOMAIN memories :
            LET similarity == Ctx_calculateSimilarity(reply.queryInfo, memories[i])
            IN  FracAtLeast(similarity, ThresholdInForce(reply.threshold))
                  => \E k \in DOMAIN reply.results : reply.results[k].id = memories[i].id
       /\ \A i, j \in DOMAIN reply.results :
            i < j => \/ FracLess(reply.results[j].similarity, reply.results[i].similarity)
                     \/ /\ reply.results[j].similarity = reply.results[i].similarity
                        /\ reply.results[j].createdAt <= reply.results[i].createdAt

(***************************************************************************)
(* C28.  The similarity of a memory to the query is half the sum of the    *)
(* keyword overlap and of the concept overlap, each the size of the        *)
(* intersection of the two sets over the size of their union.              *)
(***************************************************************************)
Jaccard(A, B) == Frac(Cardinality(A \cap B), Cardinality(A \cup B))

JaccardSimilarity(queryInfo, memory) ==
  FracTimes(FracAdd(Jaccard(KeywordWords(queryInfo.keywords), KeywordWords(memory.keywords)),
                    Jaccard(SeqToSet(queryInfo.concepts), SeqToSet(memory.concepts))),
            1, 2)

C28_SimilarityIsJaccard ==
  lastOp.op = "ctx.search"
    => \A i \in DOMAIN reply.results :
         reply.results[i].similarity = JaccardSimilarity(reply.queryInfo, reply.results[i])

(***************************************************************************)
(* C29.  A search of the context layer adds one to the accessCount of      *)
(* every memory it returns, and leaves the accessCount of the others.      *)
(***************************************************************************)
Returned(results, memory) == \E k \in DOMAIN results : results[k].id = memory.id

C29_SearchCountsAccess ==
  [][ lastOp'.op = "ctx.search"
        => /\ Len(memories') = Len(memories)
           /\ \A i \in DOMAIN memories :
                memories'[i].accessCount
                  = memories[i].accessCount
                      + (IF Returned(reply'.results, memories[i]) THEN 1 ELSE 0) ]_vars

(***************************************************************************)
(* C30.  The consolidate of the context layer removes no memory that has   *)
(* been accessed, whatever its age: a memory that the search before the    *)
(* consolidate returned is still there after it.                           *)
(***************************************************************************)
C30_ConsolidateKeepsAccessed ==
  [][ (lastOp'.op = "ctx.consolidate" /\ reply.op = "search")
        => \A i \in DOMAIN memories :
             Returned(reply.results, memories[i])
               => \E k \in DOMAIN memories' : memories'[k].id = memories[i].id ]_vars

(***************************************************************************)
(* The concept graph: edges, endpoints and adjacency sets.                 *)
(***************************************************************************)
\* the adjacency set of a concept of the Map (empty when the Map has not
\* got the concept)
ConnectionsOf(cs, name) ==
  IF HasConcept(cs, name) THEN cs[ConceptIndex(cs, name)].connections ELSE {}

ConceptNames(cs) == {cs[i].name : i \in DOMAIN cs}

\* C31: every stored relationship edge between A and B has both A and B as
\* concept nodes, with B in A's adjacency set and A in B's adjacency set.
C31_EdgesHaveEndpoints ==
  \A key \in DOMAIN relationships :
    /\ HasConcept(concepts, key[1])
    /\ HasConcept(concepts, key[2])
    /\ key[2] \in ConnectionsOf(concepts, key[1])
    /\ key[1] \in ConnectionsOf(concepts, key[2])

\* the concepts that this step removed
RemovedNames == ConceptNames(concepts) \ ConceptNames(concepts')

\* a step of consolidate or of an ingestion that removed a concept
RemovesConcept ==
  /\ lastOp'.op \in {"sem.consolidate", "sem.process", "sem.process.throw"}
  /\ RemovedNames # {}

\* C32: when Consolidate or the capacity cleanup removes a concept, no
\* relationship entry names it afterwards and no surviving concept's
\* adjacency set contains it.
C32_RemovalTakesEdges ==
  [][RemovesConcept =>
       \A name \in RemovedNames :
         /\ \A key \in DOMAIN relationships' : name \notin {key[1], key[2]}
         /\ \A i \in DOMAIN concepts' : name \notin concepts'[i].connections]_vars

\* C33: removing a concept leaves unchanged the weight of every edge whose
\* two endpoints both survive.
C33_SurvivingEdgesKeepWeight ==
  [][(lastOp'.op = "sem.consolidate" /\ RemovedNames # {}) =>
       \A key \in DOMAIN relationships :
         (HasConcept(concepts', key[1]) /\ HasConcept(concepts', key[2]))
           => Weight(relationships', key) = relationships[key]]_vars

(***************************************************************************)
(* The event list: sequence numbers, capacity and timelines.               *)
(***************************************************************************)
\* the events that recordEvent created, in the order of the calls (the
\* objects store keeps every event object ever created)
Recorded == {i \in DOMAIN eventObjs : ~eventObjs[i].compressed}

\* C34: the sequence numbers that successive recordEvent calls assign are
\* strictly increasing, so no two recorded events share a sequence number.
C34_SequenceIncreases ==
  \A i, j \in Recorded : i < j => eventObjs[i].sequence < eventObjs[j].sequence

\* the events that this step took out of the event list
EvictedEvents == SeqToSet(events) \ SeqToSet(events')

\* C35: when a recordEvent returns, the event list holds at most maxEvents
\* events, and an event evicted on overflow is the oldest event held: no
\* event that stays is older than it.
C35_EvictsOldest ==
  [][lastOp'.op = "tmp.record" =>
       /\ Len(events') <= TemporalMaxEvents
       /\ \A e \in EvictedEvents : \A h \in SeqToSet(events') :
            eventObjs[e].timestamp <= eventObjs'[h].timestamp]_vars

\* C36: every event held in a timeline is in the event list, and the
\* timeline's startTime and endTime enclose the timestamps of its events.
C36_TimelinesWithinEvents ==
  \A i \in DOMAIN timelines :
    \A e \in SeqToSet(timelines[i].events) :
      /\ e \in SeqToSet(events)
      /\ timelines[i].startTime <= eventObjs[e].timestamp
      /\ eventObjs[e].timestamp <= timelines[i].endTime

\* a recordEvent has evicted an event from a list that a consolidate had
\* reordered, and timelines hold events
C36_Witness ==
  /\ lastOp.op = "tmp.record"
  /\ Len(events) = TemporalMaxEvents
  /\ Cardinality(Recorded) > Len(events)
  /\ \E i, j \in DOMAIN events : i < j /\ events[i] > events[j]
  /\ \E i \in DOMAIN timelines : timelines[i].events # <<>>

(***************************************************************************)
(* TemporalLayer: recordEvent on a layer that importState has given the    *)
(* pattern list of a snapshot, about as long as the cap of cleanupPatterns *)
(* allows.  The patterns of the snapshot were created a minute apart, the  *)
(* first one age minutes before the construction.                          *)
(***************************************************************************)
CapAges == {MONTH, 2 * PatternCap}

CapLengths == (PatternCap - 1)..(PatternCap + MaxCapExcess)

ImportedPattern(age, i) ==
  [NoPattern EXCEPT !.type = "frequency", !.createdAt = Epoch - age + i]

\* importState of a snapshot without events
PatternImport ==
  \E n \in CapLengths, age \in CapAges :
    /\ lastOp.op = "init"
    /\ SetT(TL_importState(TState,
              [events |-> <<>>, objs |-> <<>>, timelines |-> <<>>,
               patterns |-> [i \in 1..n |-> ImportedPattern(age, i)]]))
    /\ lastOp' = Op("tmp.import")
    /\ UNCHANGED <<now, appVars, ctxVars, semVars, callVars, engVars>>

PatternCapTick ==
  /\ Tick(HOUR, MaxCapHours * HOUR)
  /\ UNCHANGED <<ctxVars, tmpVars, semVars, callVars, engVars>>

NextPatternCap ==
  \/ PatternImport
  \/ TemporalRecord(ConcInfos, {"none"}, MaxCapRecords)
  \/ PatternCapTick

SpecPatternCap == Init /\ [][NextPatternCap]_vars

\* C37: after every recordEvent the pattern list holds at most 1000
\* patterns, none created more than 30 days ago, and the patterns dropped
\* are the oldest ones: the list is a suffix of the list before followed
\* by the (at most three) patterns found now, and the newest pattern
\* dropped was older than 30 days unless the list is at the cap.
C37_PatternsCapped ==
  [][lastOp'.op = "tmp.record" =>
       /\ Len(patterns') <= PatternCap
       /\ \A i \in DOMAIN patterns' : patterns'[i].createdAt >= now' - MONTH
       /\ \E d \in 0..Len(patterns) :
            /\ Len(patterns') >= Len(patterns) - d
            /\ d < Len(patterns) => patterns'[1] = patterns[d + 1]
            /\ d > 0 => (Len(patterns') = PatternCap
                           \/ patterns[d].createdAt <= now' - MONTH)
            /\ SubSeq(patterns', 1, Len(patterns) - d)
                 = SubSeq(patterns, d + 1, Len(patterns))
            /\ Len(patterns') <= Len(patterns) - d + 3
            /\ \A i \in (Len(patterns) - d + 1)..Len(patterns') :
                 patterns'[i].createdAt = now']_vars

\* a recordEvent found a recurring pattern and pushed it on a list at the
\* cap: the list is at the cap again and begins with the third pattern of
\* the snapshot, of which none is older than 30 days
C37_Witness ==
  /\ lastOp.op = "tmp.record"
  /\ Len(patterns) = PatternCap
  /\ patterns[PatternCap].type = "recurring"
  /\ patterns[1] = ImportedPattern(2 * PatternCap, 3)

(***************************************************************************)
(* C38.  After every retrieveInformation the cache holds at most cacheSize *)
(* entries; the entries a call removes are the earliest-inserted ones, and *)
(* as many as the cache with the new entry is over its bound: the cache    *)
(* after the call is a suffix of the cache before it, followed by the      *)
(* entry the call stored, if it stored one.  No other call removes an      *)
(* entry.                                                                  *)
(***************************************************************************)
\* the entries of the cache c from the place d + 1 on
CacheFrom(c, d) == SubSeq(c, d + 1, Len(c))

\* the call was not answered from the cache and has a result
StoresResponse ==
  /\ reply'.success
  /\ ~reply'.cached
  /\ reply'.response.totalResults > 0

C38_CacheBounded ==
  [][ /\ lastOp'.op = "eng.retrieve" =>
           /\ Len(cache') <= CacheSize
           /\ \E d \in 0..Len(cache), stored \in 0..1 :
                /\ stored = 1 <=> StoresResponse
                /\ stored = 1 => cache'[Len(cache')].response = reply'.response
                /\ Len(cache') = Len(cache) - d + stored
                /\ CacheFrom(cache, d) = SubSeq(cache', 1, Len(cache) - d)
                /\ d = Max(0, Len(cache) + stored - CacheSize)
      /\ lastOp'.op # "eng.retrieve" => cache' = cache ]_vars

\* A retrieveInformation that was not answered from the cache has stored
\* its response in a cache that is at its bound, the fourth call of an
\* engine none of whose calls was answered from the cache.
C38_Witness ==
  /\ lastOp.op = "eng.retrieve"
  /\ reply.success
  /\ ~reply.cached
  /\ reply.response.totalResults > 0
  /\ Len(cache) = CacheSize
  /\ cache[CacheSize].response = reply.response
  /\ cache[1].key.timestamp < cache[CacheSize].key.timestamp
  /\ metrics.totalMemories = MaxCacheCalls
  /\ metrics.hitRate.num = 0

(***************************************************************************)
(* ConversationManager.  The constructor calls initializeSystem and does   *)
(* not await it: initializeSystem runs up to its first await,              *)
(* loadConversationHistory (persistenceEnabled is `config.persistenceEnabled*)
(* || true`, and there is no memoryManager by default), and the            *)
(* constructor returns.  Init is the state at that moment.  A conversation *)
(* is kept as its id and its lastActivity; the id, a uuid, is the number   *)
(* of the conversation.                                                    *)
(***************************************************************************)
ConversationIds(convs) == {conv.id : conv \in convs}

NumConversations ==
  Cardinality(ConversationIds(activeConversations) \cup conversationHistory)

\* initializeSystem after the await of loadConversationHistory:
\* startConversationMonitoring, and the two counters are set to 0
InitializeSystem ==
  /\ managerPc["init"].at = "init.load"
  /\ managerMetrics' = [managerMetrics EXCEPT !.totalConversations = 0,
                                              !.activeConversations = 0]
  /\ managerPc' = [managerPc EXCEPT !["init"] = ManagerAt("done", 0)]
  /\ lastOp' = Op("conv.init")
  /\ UNCHANGED <<now, activeConversations, conversationHistory, batchCall,
                 ctxVars, tmpVars, semVars, engVars, callVars>>

\* createConversation up to the await of saveConversation
CreateConversation(c) ==
  /\ managerPc[c].at = "idle"
  /\ NumConversations < MaxConversations
  /\ LET conversationId == NumConversations + 1
     IN  /\ activeConversations' =
               activeConversations \cup {[id |-> conversationId, lastActivity |-> now]}
         /\ managerPc' = [managerPc EXCEPT ![c] = ManagerAt("create.save", conversationId)]
  /\ managerMetrics' = [managerMetrics EXCEPT !.totalConversations = @ + 1,
                                              !.activeConversations = @ + 1]
  /\ UNCHANGED <<now, lastOp, conversationHistory, batchCall,
                 ctxVars, tmpVars, semVars, engVars, callVars>>

\* createConversation returns
CreateReturn(c) ==
  /\ managerPc[c].at = "create.save"
  /\ managerPc' = [managerPc EXCEPT ![c] = ManagerIdle]
  /\ lastOp' = Op("conv.create")
  /\ UNCHANGED <<now, activeConversations, conversationHistory, managerMetrics, batchCall,
                 ctxVars, tmpVars, semVars, engVars, callVars>>

\* endConversation up to the await of calculateSatisfaction; a conversation
\* that is not active makes it throw, and the catch returns success: false
EndConversation(c, conversationId) ==
  /\ managerPc[c].at = "idle"
  /\ IF conversationId \in ConversationIds(activeConversations)
       THEN /\ managerPc' = [managerPc EXCEPT ![c] = ManagerAt("end.satisfaction", conversationId)]
            /\ UNCHANGED lastOp
       ELSE /\ lastOp' = Op("conv.end.fail")
            /\ UNCHANGED managerPc
  /\ UNCHANGED <<now, activeConversations, conversationHistory, managerMetrics, batchCall,
                 ctxVars, tmpVars, semVars, engVars, callVars>>

\* endConversation from the await of calculateSatisfaction to the await of
\* saveConversation: the conversation goes to the history, is deleted from
\* the Map (Map.delete of a key that is not there does nothing), and the
\* counters are updated
EndMove(c) ==
  LET conversationId == managerPc[c].conversationId
  IN  /\ managerPc[c].at = "end.satisfaction"
      /\ conversationHistory' = conversationHistory \cup {conversationId}
      /\ activeConversations' = {conv \in activeConversations : conv.id # conversationId}
      /\ managerMetrics' = [managerMetrics EXCEPT !.activeConversations = @ - 1,
                                                  !.conversationSuccess = @ + 1]
      /\ managerPc' = [managerPc EXCEPT ![c].at = "end.save"]
      /\ UNCHANGED <<now, lastOp, batchCall, ctxVars, tmpVars, semVars, engVars, callVars>>

\* endConversation returns
EndReturn(c) ==
  /\ managerPc[c].at = "end.save"
  /\ managerPc' = [managerPc EXCEPT ![c] = ManagerIdle]
  /\ lastOp' = Op("conv.end")
  /\ UNCHANGED <<now, activeConversations, conversationHistory, managerMetrics, batchCall,
                 ctxVars, tmpVars, semVars, engVars, callVars>>

\* no call of the ConversationManager is in progress
NoOperationInProgress ==
  \A c \in ManagerCalls : managerPc[c].at \in {"idle", "done"}

\* cleanupInactiveConversations, which the interval of
\* startConversationMonitoring calls; it has no await.  What the calls
\* await (loadConversationHistory, saveConversation, calculateSatisfaction)
\* is settled at once, so that a call in progress goes on before the next
\* timer fires: the interval and the clock find no call in progress.
CleanupInactiveConversations ==
  LET inactive == {conv \in activeConversations :
                     now - conv.lastActivity > InactiveThreshold}
  IN  /\ NoOperationInProgress
      /\ managerPc["init"].at = "done"
      /\ conversationHistory' = conversationHistory \cup ConversationIds(inactive)
      /\ activeConversations' = activeConversations \ inactive
      /\ managerMetrics' = [managerMetrics EXCEPT
                              !.activeConversations = @ - Cardinality(inactive)]
      /\ lastOp' = OpAgain("conv.cleanup")
      /\ UNCHANGED <<now, managerPc, batchCall, ctxVars, tmpVars, semVars, engVars, callVars>>

ManagerTick ==
  /\ NoOperationInProgress
  /\ Tick(InactiveThreshold + MINUTE, MaxManagerTicks * (InactiveThreshold + MINUTE))
  /\ UNCHANGED <<ctxVars, tmpVars, semVars, engVars, callVars>>

NextManager ==
  \/ InitializeSystem
  \/ \E c \in Callers : CreateConversation(c)
  \/ \E c \in Callers : CreateReturn(c)
  \/ \E c \in Callers, conversationId \in 1..MaxConversations :
       EndConversation(c, conversationId)
  \/ \E c \in Callers : EndMove(c)
  \/ \E c \in Callers : EndReturn(c)
  \/ CleanupInactiveConversations
  \/ ManagerTick

SpecManager == Init /\ [][NextManager]_vars

\* C39: whenever no operation is in progress, metrics.activeConversations
\* is the number of entries of activeConversations, and it is never
\* negative.
C39_CounterIsMapSize ==
  /\ managerMetrics.activeConversations >= 0
  /\ NoOperationInProgress
       => managerMetrics.activeConversations = Cardinality(activeConversations)

(***************************************************************************)
(* TrainingProcessor.processBatch.  A file is its originalname, its        *)
(* extension and, for a .pdf, whether pdf-parse can read it.               *)
(***************************************************************************)
supportedExtensions == {".pdf", ".docx", ".txt", ".md", ".csv", ".json", ".html"}

BatchFiles ==
  { [originalname |-> "notes.txt", extension |-> ".txt", readable |-> TRUE],
    [originalname |-> "tool.exe", extension |-> ".exe", readable |-> TRUE],
    [originalname |-> "scan.pdf", extension |-> ".pdf", readable |-> FALSE] }

RECURSIVE SeqsUpTo(_, _)
SeqsUpTo(S, n) ==
  IF n = 0 THEN {<<>>}
  ELSE LET shorter == SeqsUpTo(S, n - 1)
       IN  shorter \cup {Append(s, x) : s \in shorter, x \in S}

\* processFile: what it throws.  An extension outside the switch throws
\* 'Unsupported file format', a .pdf that pdf-parse cannot read 'Failed to
\* extract text from PDF'.  Every other file reaches the result object,
\* where `fileInfo.timestamp.getTime()` is called on the string that
\* toISOString returned: a TypeError.  The catch rethrows.
processFile(file) ==
  IF file.extension \notin supportedExtensions
    THEN [threw |-> TRUE, message |-> "Unsupported file format"]
  ELSE IF file.extension = ".pdf" /\ ~file.readable
    THEN [threw |-> TRUE, message |-> "Failed to extract text from PDF"]
  ELSE [threw |-> TRUE, message |-> "fileInfo.timestamp.getTime is not a function"]

\* The mutant of FileResults that pushes nothing for a file that failed.
FileResults_skipFailed(file) ==
  IF processFile(file).threw THEN <<>>
  ELSE <<[name |-> file.originalname, status |-> "completed", error |-> ""]>>

\* the try and catch of processBatch's inner loop: what is pushed on
\* batchResults for the file
FileResults(file) ==
  LET r == processFile(file)
  IN  IF r.threw
        THEN <<[name |-> file.originalname, status |-> "failed", error |-> r.message]>>
        ELSE <<[name |-> file.originalname, status |-> "completed", error |-> ""]>>

\* files.slice(i, i + batchSize), i 0-based
Slice(files, i, batchSize) == SubSeq(files, i + 1, Min(i + batchSize, Len(files)))

\* processBatch up to the await of the first processFile; without files it
\* returns the empty list
ProcessBatch ==
  \E files \in SeqsUpTo(BatchFiles, MaxFiles), batchSize \in 1..MaxBatchSize,
     onProgress \in BOOLEAN :
    /\ batchCall.at \in {"idle", "returned"}
    /\ batchCall' = [at |-> IF files = <<>> THEN "returned" ELSE "file",
                     files |-> files, batchSize |-> batchSize, onProgress |-> onProgress,
                     i |-> 0, batch |-> Slice(files, 0, batchSize),
                     batchResults |-> <<>>, results |-> <<>>, progress |-> <<>>]
    /\ lastOp' = IF files = <<>> THEN Op("batch.return") ELSE lastOp
    /\ UNCHANGED <<now, convVars, ctxVars, tmpVars, semVars, engVars, callVars>>

\* the processFile awaited has settled.  After the last file of the batch
\* the results are pushed and the progress is reported; then comes the
\* delay, or the return after the last batch.
BatchFile ==
  LET b == batchCall
      file == b.batch[Len(b.batchResults) + 1]
      batchResults == b.batchResults \o FileResults(file)
      completed == Min(b.i + b.batchSize, Len(b.files))
      more == b.i + b.batchSize < Len(b.files)
  IN  /\ b.at = "file"
      /\ IF Len(b.batchResults) + 1 < Len(b.batch)
           THEN /\ batchCall' = [b EXCEPT !.batchResults = batchResults]
                /\ UNCHANGED lastOp
           ELSE /\ batchCall' =
                     [b EXCEPT !.batchResults = batchResults,
                               !.results = @ \o batchResults,
                               !.progress = IF b.onProgress
                                              THEN Append(@, [completed |-> completed,
                                                              total |-> Len(b.files)])
                                              ELSE @,
                               !.at = IF more THEN "delay" ELSE "returned"]
                /\ lastOp' = IF more THEN lastOp ELSE Op("batch.return")
      /\ UNCHANGED <<now, convVars, ctxVars, tmpVars, semVars, engVars, callVars>>

\* the delay between two batches is over: the next batch begins
BatchDelay ==
  /\ batchCall.at = "delay"
  /\ batchCall' = [batchCall EXCEPT
                     !.i = @ + batchCall.batchSize,
                     !.batch = Slice(batchCall.files, batchCall.i + batchCall.batchSize,
                                     batchCall.batchSize),
                     !.batchResults = <<>>,
                     !.at = "file"]
  /\ UNCHANGED <<now, lastOp, convVars, ctxVars, tmpVars, semVars, engVars, callVars>>

NextBatch == ProcessBatch \/ BatchFile \/ BatchDelay

SpecBatch == Init /\ [][NextBatch]_vars

\* C40: processBatch returns one result for each file, in the order of the
\* files; a file whose processFile throws has a result of status 'failed'
\* and the files after it have their results too; the completed counts
\* reported never fall, and the last one is the number of files.
C40_OneResultPerFile ==
  /\ \A k \in DOMAIN batchCall.progress :
       /\ k > 1 => batchCall.progress[k - 1].completed <= batchCall.progress[k].completed
       /\ batchCall.progress[k].completed <= Len(batchCall.files)
  /\ batchCall.at = "returned" =>
       /\ Len(batchCall.results) = Len(batchCall.files)
       /\ \A k \in DOMAIN batchCall.files :
            /\ batchCall.results[k].name = batchCall.files[k].originalname
            /\ processFile(batchCall.files[k]).threw
                 => batchCall.results[k].status = "failed"
       /\ (batchCall.onProgress /\ batchCall.files # <<>>) =>
            /\ batchCall.progress # <<>>
            /\ batchCall.progress[Len(batchCall.progress)].completed = Len(batchCall.files)

\* A call with three files in two batches has returned: the first file
\* failed for its format, and the progress was reported twice.
C40_Witness ==
  /\ batchCall.at = "returned"
  /\ Len(batchCall.files) = MaxFiles
  /\ batchCall.batchSize = MaxBatchSize
  /\ batchCall.files[1].extension = ".exe"
  /\ batchCall.files[MaxFiles].extension = ".txt"
  /\ batchCall.results[1].error = "Unsupported file format"
  /\ Len(batchCall.progress) = 2

====
